---- MODULE Spec2Model ----
(***************************************************************************)
(* x402-nostr-relay: payment-gated Nostr relay.                            *)
(*                                                                         *)
(* JavaScript strings are sequences of one-character strings, so that      *)
(* trim, toLowerCase, startsWith and BigInt parsing are computed.          *)
(* A JavaScript value that may be a string, a number or undefined is a     *)
(* record [type, val] whose val is always a character sequence.            *)
(***************************************************************************)
EXTENDS Integers, Sequences, FiniteSets, Bags, TLC

(***************************************************************************)
(* Bounds of the model.                                                    *)
(***************************************************************************)
MaxInFlight == 2
MaxPayouts == 1

(***************************************************************************)
(* String helpers (String.prototype.trim / toLowerCase / startsWith).      *)
(***************************************************************************)
IsSpace(c) == c = " "

RECURSIVE trimStart(_)
trimStart(s) ==
  IF s = << >> THEN s
  ELSE IF IsSpace(Head(s)) THEN trimStart(Tail(s)) ELSE s

RECURSIVE trimEnd(_)
trimEnd(s) ==
  IF s = << >> THEN s
  ELSE IF IsSpace(s[Len(s)]) THEN trimEnd(SubSeq(s, 1, Len(s) - 1)) ELSE s

trim(s) == trimEnd(trimStart(s))

LowerChar(c) ==
  CASE c = "A" -> "a"
    [] c = "B" -> "b"
    [] OTHER -> c

toLowerCase(s) == [i \in 1..Len(s) |-> LowerChar(s[i])]

startsWith(s, p) == Len(p) <= Len(s) /\ SubSeq(s, 1, Len(p)) = p

JsString(s) == [type |-> "string", val |-> s]
JsNumber(s) == [type |-> "number", val |-> s]
JsUndefined == [type |-> "undefined", val |-> << >>]

\* JavaScript truthiness of a string / number / undefined value.
Truthy(v) ==
  CASE v.type = "string" -> v.val # << >>
    [] v.type = "number" -> v.val # <<"0">>
    [] OTHER -> FALSE

(***************************************************************************)
(* x402.mjs: constants, pricing.                                           *)
(***************************************************************************)
PAY_TO == <<"S", "P">>
OTHER_ADDR == <<"S", "X">>

RECIPIENT_AMOUNT == 100

BASE_PRICING_default == 10

BASE_PRICING(kind) ==
  CASE kind = 0 -> 50
    [] kind = 1 -> 10
    [] kind = 4 -> 5
    [] kind = 30023 -> 25
    [] OTHER -> BASE_PRICING_default

normalizeTxIdNoFold(txId) ==
  IF txId.type # "string" THEN << >> ELSE trim(txId.val)

normalizeTxId(txId) ==
  IF txId.type # "string" THEN << >> ELSE toLowerCase(trim(txId.val))

Digits == {"0", "1", "2", "3", "4", "5", "6", "7", "8", "9"}

DigitVal(c) ==
  CASE c = "0" -> 0 [] c = "1" -> 1 [] c = "2" -> 2 [] c = "3" -> 3
    [] c = "4" -> 4 [] c = "5" -> 5 [] c = "6" -> 6 [] c = "7" -> 7
    [] c = "8" -> 8 [] c = "9" -> 9

RECURSIVE DecValue(_)
DecValue(s) ==
  IF s = << >> THEN 0
  ELSE DecValue(SubSeq(s, 1, Len(s) - 1)) * 10 + DigitVal(s[Len(s)])

IsDigits(s) == s # << >> /\ \A i \in 1..Len(s) : s[i] \in Digits

\* BigInt(value): [ok |-> FALSE] stands for a thrown SyntaxError / TypeError /
\* RangeError.  A string is trimmed, the empty string is 0, an optional sign
\* is followed by decimal digits; a number must be an integer; undefined throws.
BigIntOf(value) ==
  IF value.type = "undefined" THEN [ok |-> FALSE, n |-> 0]
  ELSE LET t == IF value.type = "string" THEN trim(value.val) ELSE value.val IN
    IF t = << >> THEN [ok |-> value.type = "string", n |-> 0]
    ELSE IF Head(t) = "-" /\ IsDigits(Tail(t)) THEN [ok |-> TRUE, n |-> 0 - DecValue(Tail(t))]
    ELSE IF Head(t) = "+" /\ value.type = "string" /\ IsDigits(Tail(t))
      THEN [ok |-> TRUE, n |-> DecValue(Tail(t))]
    ELSE IF IsDigits(t) THEN [ok |-> TRUE, n |-> DecValue(t)]
    ELSE [ok |-> FALSE, n |-> 0]

NullAmount == [ok |-> FALSE, n |-> 0]

parseAmountSigned(value) ==
  LET b == BigIntOf(value) IN
  IF b.ok THEN b ELSE NullAmount

parseAmount(value) ==
  LET b == BigIntOf(value) IN
  IF b.ok THEN (IF b.n >= 0 THEN b ELSE NullAmount) ELSE NullAmount

\* Array.prototype.find over the tags: index of the first tag t with
\* t[0] === 'p' && t[1], or 0.
RECURSIVE FindPTag(_, _)
FindPTag(tags, i) ==
  IF i > Len(tags) THEN 0
  ELSE IF Len(tags[i]) >= 2 /\ tags[i][1] = "p" /\ tags[i][2] # "" THEN i
  ELSE FindPTag(tags, i + 1)

NoRecipient == ""

getRecipient(event) ==
  LET i == FindPTag(event.tags, 1) IN
  IF i = 0 THEN NoRecipient ELSE event.tags[i][2]

getBasePrice(kind) == BASE_PRICING(kind)

getPriceOfKind(kind) == getBasePrice(kind)

getPriceBaseOnly(event) == getBasePrice(event.kind)

getPrice(event) ==
  LET base == getBasePrice(event.kind)
      recipient == getRecipient(event)
  IN IF recipient # NoRecipient THEN base + RECIPIENT_AMOUNT ELSE base


(***************************************************************************)
(* x402.mjs: extractPayment.  A header value is absent, a raw text that is *)
(* not JSON, or JSON whose parsed object has the fields txId and           *)
(* transactionId (JsUndefined when the object lacks the field).            *)
(***************************************************************************)
JsNull == [type |-> "null", val |-> << >>]

HAbsent == [form |-> "absent", text |-> << >>, txId |-> JsUndefined, transactionId |-> JsUndefined]
HRaw(s) == [form |-> "raw", text |-> s, txId |-> JsUndefined, transactionId |-> JsUndefined]
HJson(a, b) == [form |-> "json", text |-> << >>, txId |-> a, transactionId |-> b]

extractPayment(headers) ==
  LET paymentHeader ==
        IF headers.xPaymentResponse.form # "absent"
          THEN headers.xPaymentResponse ELSE headers.xPayment
  IN IF paymentHeader.form = "absent" THEN JsNull
     ELSE IF paymentHeader.form = "raw" THEN JsString(paymentHeader.text)
     ELSE IF Truthy(paymentHeader.txId) THEN paymentHeader.txId
     ELSE IF Truthy(paymentHeader.transactionId) THEN paymentHeader.transactionId
     ELSE JsNull

(***************************************************************************)
(* x402.mjs: verifyPayment, the part after the ledger lookup returned      *)
(* (lines 130-177).  A ledger outcome is a network error (fetch rejects),  *)
(* a response that is not ok, a body that is not a record (reading it      *)
(* throws), or a transaction record.                                       *)
(***************************************************************************)
NoAsset == [asset_event_type |-> "none", recipient |-> << >>, amount |-> JsUndefined]
NoTransfer == [present |-> FALSE, recipient_address |-> << >>, amount |-> JsUndefined]
NoTx == [tx_status |-> "none", tx_type |-> "none", token_transfer |-> NoTransfer, events |-> << >>]

Outcome(kind, status, tx) == [kind |-> kind, status |-> status, tx |-> tx]
NoOutcome == Outcome("none", 0, NoTx)

Result(valid, error, lit, a, b) ==
  [valid |-> valid, error |-> error, lit |-> lit, paid |-> a, min |-> b]
Valid == Result(TRUE, "", "", 0, 0)
Reject(error) == Result(FALSE, error, "", 0, 0)
NoResult == Result(FALSE, "none", "", 0, 0)

Max(a, b) == IF a >= b THEN a ELSE b

IsTransferToUs(ev) ==
  /\ ev.event_type \in {"fungible_token_transfer", "fungible_token_asset"}
  /\ ev.asset.asset_event_type = "transfer"
  /\ ev.asset.recipient = PAY_TO

\* A mutant of events.find(...): the last qualifying event is taken.
FindTransferToUsLast(events, i) ==
  IF \E j \in i..Len(events) : IsTransferToUs(events[j])
    THEN CHOOSE j \in i..Len(events) :
           /\ IsTransferToUs(events[j])
           /\ \A k \in (j + 1)..Len(events) : ~IsTransferToUs(events[k])
    ELSE 0

\* events.find(...): index of the first qualifying event, or 0.
RECURSIVE FindTransferToUs(_, _)
FindTransferToUs(events, i) ==
  IF i > Len(events) THEN 0
  ELSE IF IsTransferToUs(events[i]) THEN i
  ELSE FindTransferToUs(events, i + 1)

\* A mutant of the amount rule: the comparison is skipped.
CheckAmountSkipped(paidAmount, minimumAmount) == Valid

CheckAmount(paidAmount, minimumAmount) ==
  IF paidAmount < minimumAmount
    THEN Result(FALSE, "Insufficient payment", "", paidAmount, minimumAmount)
    ELSE Valid

\* A mutant of the decision: the recipient of a token_transfer is not checked.
verifyTxNoRecipient(tx, requiredSats) ==
  LET minimumAmount == Max(0, requiredSats) IN
  IF tx.tx_status # "success" THEN Result(FALSE, "Transaction status", tx.tx_status, 0, 0)
  ELSE IF tx.tx_type = "token_transfer" THEN
    LET paid == parseAmount(tx.token_transfer.amount) IN
    IF ~paid.ok THEN Reject("Invalid transfer amount")
    ELSE CheckAmount(paid.n, minimumAmount)
  ELSE IF tx.tx_type = "contract_call" THEN
    LET i == FindTransferToUs(tx.events, 1) IN
    IF i = 0 THEN Reject("No sBTC transfer to relay found in tx")
    ELSE LET paid == parseAmount(tx.events[i].asset.amount) IN
      IF ~paid.ok THEN Reject("Invalid transfer amount")
      ELSE CheckAmount(paid.n, minimumAmount)
  ELSE Result(FALSE, "Unsupported transaction type", tx.tx_type, 0, 0)

\* A mutant of the decision: the amount is tested before the recipient.
verifyTxAmountFirst(tx, requiredSats) ==
  LET minimumAmount == Max(0, requiredSats) IN
  IF tx.tx_status # "success" THEN Result(FALSE, "Transaction status", tx.tx_status, 0, 0)
  ELSE IF tx.tx_type = "token_transfer" THEN
    LET paid == parseAmount(tx.token_transfer.amount) IN
    IF ~paid.ok THEN Reject("Invalid transfer amount")
    ELSE IF paid.n < minimumAmount
      THEN Result(FALSE, "Insufficient payment", "", paid.n, minimumAmount)
    ELSE IF ~tx.token_transfer.present \/ tx.token_transfer.recipient_address # PAY_TO
      THEN Reject("Payment not sent to relay address")
    ELSE Valid
  ELSE verifyTxNoRecipient(tx, requiredSats)

\* Lines 136-174: the rules applied to the record.
verifyTx(tx, requiredSats) ==
  LET minimumAmount == Max(0, requiredSats) IN
  IF tx.tx_status # "success" THEN Result(FALSE, "Transaction status", tx.tx_status, 0, 0)
  ELSE IF tx.tx_type = "token_transfer" THEN
    IF ~tx.token_transfer.present \/ tx.token_transfer.recipient_address # PAY_TO
      THEN Reject("Payment not sent to relay address")
    ELSE LET paid == parseAmount(tx.token_transfer.amount) IN
      IF ~paid.ok THEN Reject("Invalid transfer amount")
      ELSE CheckAmount(paid.n, minimumAmount)
  ELSE IF tx.tx_type = "contract_call" THEN
    LET i == FindTransferToUs(tx.events, 1) IN
    IF i = 0 THEN Reject("No sBTC transfer to relay found in tx")
    ELSE LET paid == parseAmount(tx.events[i].asset.amount) IN
      IF ~paid.ok THEN Reject("Invalid transfer amount")
      ELSE CheckAmount(paid.n, minimumAmount)
  ELSE Result(FALSE, "Unsupported transaction type", tx.tx_type, 0, 0)

\* Lines 128-177: the outcome of the lookup turned into the result.
verifyOutcome(outcome, requiredSats) ==
  CASE outcome.kind = "neterr" -> Result(FALSE, "Verification failed", "fetch failed", 0, 0)
    [] outcome.kind = "notok" -> Result(FALSE, "Transaction not found", "", outcome.status, 0)
    [] outcome.kind = "badbody" -> Result(FALSE, "Verification failed", "invalid json", 0, 0)
    [] OTHER -> verifyTx(outcome.tx, requiredSats)


(***************************************************************************)
(* Events.  id and pubkey are character sequences (prefix matching), a tag *)
(* is a sequence of strings, a missing field is the empty value and a      *)
(* missing kind is NullKind.                                               *)
(***************************************************************************)
NullKind == -1

Event(id, pubkey, kind, created_at, tags, sig) ==
  [id |-> id, pubkey |-> pubkey, kind |-> kind, created_at |-> created_at,
   tags |-> tags, sig |-> sig]

NoEvent == Event(<< >>, << >>, NullKind, 0, << >>, "")

IsReplaceable(kind) == kind = 0 \/ kind = 3 \/ (kind >= 10000 /\ kind < 20000)
IsParameterized(kind) == kind >= 30000 /\ kind < 40000
\* A mutant of the class test: no kind is ephemeral.
IsEphemeralNever(kind) == FALSE

IsEphemeral(kind) == kind >= 20000 /\ kind < 30000

\* (event.tags || []).find(t => t[0] === 'd')?.[1] || ''
RECURSIVE FindTag(_, _, _)
FindTag(tags, name, i) ==
  IF i > Len(tags) THEN 0
  ELSE IF Len(tags[i]) >= 1 /\ tags[i][1] = name THEN i
  ELSE FindTag(tags, name, i + 1)

dTagOf(event) ==
  LET i == FindTag(event.tags, "d", 1) IN
  IF i = 0 THEN "" ELSE IF Len(event.tags[i]) >= 2 THEN event.tags[i][2] ELSE ""

RemoveAt(seq, i) == SubSeq(seq, 1, i - 1) \o SubSeq(seq, i + 1, Len(seq))

HasId(evs, id) == \E i \in 1..Len(evs) : evs[i].id = id

\* A mutant of the key: the d tag is not compared.
SameKeyIgnoringD(ex, event) == ex.pubkey = event.pubkey /\ ex.kind = event.kind

SameKey(ex, event) ==
  /\ ex.pubkey = event.pubkey
  /\ ex.kind = event.kind
  /\ (IsParameterized(event.kind) => dTagOf(ex) = dTagOf(event))

\* A mutant of the loop: nothing is compared, nothing is deleted.
ReplaceLoopKeepAll(evs, i, event) == [rejected |-> FALSE, events |-> evs]

\* A mutant of the loop: an entry that is as recent as the new event is
\* replaced as well.
RECURSIVE ReplaceLoopLastWins(_, _, _)
ReplaceLoopLastWins(evs, i, event) ==
  IF i > Len(evs) THEN [rejected |-> FALSE, events |-> evs]
  ELSE IF SameKey(evs[i], event) THEN
    IF evs[i].created_at > event.created_at
      THEN [rejected |-> TRUE, events |-> evs]
      ELSE ReplaceLoopLastWins(RemoveAt(evs, i), i, event)
  ELSE ReplaceLoopLastWins(evs, i + 1, event)

\* The for-of loop over the Map in insertion order: an entry with the key of
\* the new event either ends the call (return false, with the deletions made
\* so far kept) or is deleted.
RECURSIVE ReplaceLoop(_, _, _)
ReplaceLoop(evs, i, event) ==
  IF i > Len(evs) THEN [rejected |-> FALSE, events |-> evs]
  ELSE IF SameKey(evs[i], event) THEN
    IF evs[i].created_at >= event.created_at
      THEN [rejected |-> TRUE, events |-> evs]
      ELSE ReplaceLoop(RemoveAt(evs, i), i, event)
  ELSE ReplaceLoop(evs, i + 1, event)

\* A mutant of the duplicate test: it is skipped.
HasIdNever(evs, id) == FALSE

\* store.mjs add / relay.mjs _addMemory.
addMemory(evs, event) ==
  IF HasId(evs, event.id) THEN [added |-> FALSE, events |-> evs]
  ELSE LET r == IF IsReplaceable(event.kind) \/ IsParameterized(event.kind)
                  THEN ReplaceLoop(evs, 1, event)
                  ELSE [rejected |-> FALSE, events |-> evs]
       IN IF r.rejected THEN [added |-> FALSE, events |-> r.events]
          ELSE IF IsEphemeral(event.kind) THEN [added |-> TRUE, events |-> r.events]
          ELSE [added |-> TRUE, events |-> Append(r.events, event)]

\* A mutant of the SELECT: it finds no row.
FirstRowNone(evs, i, event) == 0

\* SELECT ... WHERE pubkey = ? AND kind = ? with .get(): the first such row.
RECURSIVE FirstRow(_, _, _)
FirstRow(evs, i, event) ==
  IF i > Len(evs) THEN 0
  ELSE IF evs[i].pubkey = event.pubkey /\ evs[i].kind = event.kind THEN i
  ELSE FirstRow(evs, i + 1, event)

\* relay.mjs _addDb: the rows of the events table in rowid order.
addDb(evs, event) ==
  IF HasId(evs, event.id) THEN [added |-> FALSE, events |-> evs]
  ELSE LET r ==
         IF IsReplaceable(event.kind) THEN
           LET old == FirstRow(evs, 1, event) IN
           IF old = 0 THEN [rejected |-> FALSE, events |-> evs]
           ELSE IF evs[old].created_at >= event.created_at
             THEN [rejected |-> TRUE, events |-> evs]
             ELSE [rejected |-> FALSE, events |-> RemoveAt(evs, old)]
         ELSE IF IsParameterized(event.kind) THEN ReplaceLoop(evs, 1, event)
         ELSE [rejected |-> FALSE, events |-> evs]
       IN IF r.rejected THEN [added |-> FALSE, events |-> r.events]
          ELSE IF IsEphemeral(event.kind) THEN [added |-> TRUE, events |-> r.events]
          ELSE [added |-> TRUE, events |-> Append(r.events, event)]

\* _addDb reaches the INSERT (relay.mjs lines 264-271): the event is no
\* duplicate, has not been refused and is not ephemeral.
InsertReached(evs, event) ==
  addDb(evs, event).added /\ ~IsEphemeral(event.kind)

\* _addDb when run() of the INSERT throws (a value that cannot be bound, a
\* constraint, a full disk): the DELETE statements before it have been
\* executed, each in its own implicit transaction, and the exception leaves
\* _addDb, add and injectEvent.
addDbInsertThrows(evs, event) ==
  LET r == addDb(evs, event) IN
  [added |-> FALSE, threw |-> TRUE, events |-> SubSeq(r.events, 1, Len(r.events) - 1)]

\* A mutant of add: a duplicate id is stored again.
addNoDuplicateCheck(db, evs, event) ==
  [added |-> TRUE, events |-> Append(evs, event)]

\* EventStore.add: the durable backend when it is open, else the memory one.
add(db, evs, event) == IF db THEN addDb(evs, event) ELSE addMemory(evs, event)

(***************************************************************************)
(* Filters (filters.mjs, carried in wallet.mjs lines 126-181).  An         *)
(* optional field is [has, v]; tags maps the names of the '#x' fields      *)
(* that are present to their value lists.                                  *)
(***************************************************************************)
Absent(v) == [has |-> FALSE, v |-> v]
Present(v) == [has |-> TRUE, v |-> v]

Filter(ids, authors, kinds, since, until, limit, tags) ==
  [ids |-> ids, authors |-> authors, kinds |-> kinds, since |-> since,
   until |-> until, limit |-> limit, tags |-> tags]

NoTags == [x \in {} |-> << >>]

EmptyFilter ==
  Filter(Absent(<< >>), Absent(<< >>), Absent(<< >>), Absent(0), Absent(0), Absent(0), NoTags)

SeqHas(seq, x) == \E i \in 1..Len(seq) : seq[i] = x

TagValues(event, name) ==
  {event.tags[i][2] : i \in {j \in 1..Len(event.tags) :
      Len(event.tags[j]) >= 2 /\ event.tags[j][1] = name}}

\* A mutant of matchFilter: since and until are exclusive bounds.
matchFilterExclusive(event, filter) ==
  /\ ~(filter.since.has /\ event.created_at <= filter.since.v)
  /\ ~(filter.until.has /\ event.created_at >= filter.until.v)

matchFilter(event, filter) ==
  /\ (filter.ids.has /\ Len(filter.ids.v) > 0) =>
        \E i \in 1..Len(filter.ids.v) : startsWith(event.id, filter.ids.v[i])
  /\ (filter.authors.has /\ Len(filter.authors.v) > 0) =>
        \E i \in 1..Len(filter.authors.v) : startsWith(event.pubkey, filter.authors.v[i])
  /\ (filter.kinds.has /\ Len(filter.kinds.v) > 0) => SeqHas(filter.kinds.v, event.kind)
  /\ ~(filter.since.has /\ event.created_at < filter.since.v)
  /\ ~(filter.until.has /\ event.created_at > filter.until.v)
  /\ \A name \in DOMAIN filter.tags :
        Len(filter.tags[name]) > 0 =>
          \E i \in 1..Len(filter.tags[name]) :
            filter.tags[name][i] \in TagValues(event, name)

matchFilters(event, filters) ==
  \E i \in 1..Len(filters) : matchFilter(event, filters[i])

\* Array.prototype.sort((a, b) => b.created_at - a.created_at): stable.
RECURSIVE InsertDesc(_, _)
InsertDesc(sorted, e) ==
  IF sorted = << >> THEN <<e>>
  ELSE IF Head(sorted).created_at >= e.created_at
    THEN <<Head(sorted)>> \o InsertDesc(Tail(sorted), e)
    ELSE <<e>> \o sorted

RECURSIVE SortDesc(_)
SortDesc(seq) ==
  IF seq = << >> THEN << >>
  ELSE InsertDesc(SortDesc(SubSeq(seq, 1, Len(seq) - 1)), seq[Len(seq)])

Take(seq, n) == SubSeq(seq, 1, IF n < Len(seq) THEN n ELSE Len(seq))

\* store.mjs query / relay.mjs _queryMemory.
queryMemory(evs, filter) ==
  LET results == SortDesc(SelectSeq(evs, LAMBDA e : matchFilter(e, filter))) IN
  IF filter.limit.has /\ filter.limit.v > 0 THEN Take(results, filter.limit.v) ELSE results

QUERY_MAX == 5000

\* The WHERE clause of _queryDb: ids, authors, kinds, since, until.
SqlWhere(event, filter) ==
  /\ (filter.ids.has /\ Len(filter.ids.v) > 0) =>
        \E i \in 1..Len(filter.ids.v) : startsWith(event.id, filter.ids.v[i])
  /\ (filter.authors.has /\ Len(filter.authors.v) > 0) =>
        \E i \in 1..Len(filter.authors.v) : startsWith(event.pubkey, filter.authors.v[i])
  /\ (filter.kinds.has /\ Len(filter.kinds.v) > 0) => SeqHas(filter.kinds.v, event.kind)
  /\ (filter.since.has => event.created_at >= filter.since.v)
  /\ (filter.until.has => event.created_at <= filter.until.v)

SqlTagFilter(event, filter) ==
  \A name \in DOMAIN filter.tags :
    \E i \in 1..Len(filter.tags[name]) : filter.tags[name][i] \in TagValues(event, name)

\* relay.mjs _queryDb: ORDER BY created_at DESC (rows of equal created_at in
\* rowid order), LIMIT, then the tag filters applied to the limited rows.
queryDb(evs, filter) ==
  LET rows == SortDesc(SelectSeq(evs, LAMBDA e : SqlWhere(e, filter)))
      lim == IF filter.limit.has /\ filter.limit.v > 0
               THEN (IF filter.limit.v < QUERY_MAX THEN filter.limit.v ELSE QUERY_MAX)
               ELSE QUERY_MAX
  IN SelectSeq(Take(rows, lim), LAMBDA e : SqlTagFilter(e, filter))

query(db, evs, filter) == IF db THEN queryDb(evs, filter) ELSE queryMemory(evs, filter)

\* The length of what query returns from a store in which `matching` events
\* pass a filter that has no tag field: results.slice(0, filter.limit) of the
\* Map store (relay.mjs 365-367, store.mjs 67-71), LIMIT of the SQLite store
\* (relay.mjs 341).
queryLength(db, matching, filter) ==
  LET limited == filter.limit.has /\ filter.limit.v > 0
      lim == IF limited /\ filter.limit.v < QUERY_MAX THEN filter.limit.v ELSE QUERY_MAX
  IN IF db THEN (IF matching < lim THEN matching ELSE lim)
     ELSE IF limited THEN (IF matching < filter.limit.v THEN matching ELSE filter.limit.v)
     ELSE matching


(***************************************************************************)
(* x402.mjs: build402Response.                                             *)
(***************************************************************************)
DigitChar(d) ==
  CASE d = 0 -> "0" [] d = 1 -> "1" [] d = 2 -> "2" [] d = 3 -> "3" [] d = 4 -> "4"
    [] d = 5 -> "5" [] d = 6 -> "6" [] d = 7 -> "7" [] d = 8 -> "8" [] d = 9 -> "9"

\* String(n) for a non-negative integer.
RECURSIVE ToDecimal(_)
ToDecimal(n) ==
  IF n < 10 THEN <<DigitChar(n)>> ELSE ToDecimal(n \div 10) \o <<DigitChar(n % 10)>>

NoBreakdown ==
  [has |-> FALSE, relayFee |-> 0, recipientForward |-> 0, recipientPubkey |-> NoRecipient]

NoForwarding == "none"

Response(status, error) ==
  [status |-> status, error |-> error, detail |-> NoResult, event |-> NoEvent,
   txId |-> JsNull, required |-> 0, price |-> 0, maxAmountRequired |-> << >>,
   payTo |-> << >>, asset |-> "", network |-> "", breakdown |-> NoBreakdown,
   added |-> FALSE, forwarding |-> NoForwarding,
   outcome |-> NoOutcome, usedAtStart |-> FALSE]

NoResp == Response(0, "")

\* A mutant of build402Response: the surcharge is left out of the total.
build402ResponseBaseOnly(event) ==
  [Response(402, "Payment Required") EXCEPT
     !.event = event,
     !.price = getBasePrice(event.kind),
     !.maxAmountRequired = ToDecimal(getBasePrice(event.kind)),
     !.payTo = PAY_TO, !.asset = "sbtc", !.network = "stacks"]

build402Response(event) ==
  LET recipient == getRecipient(event)
      basePrice == getBasePrice(event.kind)
      totalPrice == IF recipient # NoRecipient THEN basePrice + RECIPIENT_AMOUNT ELSE basePrice
  IN [Response(402, "Payment Required") EXCEPT
        !.event = event,
        !.price = totalPrice,
        !.maxAmountRequired = ToDecimal(totalPrice),
        !.payTo = PAY_TO, !.asset = "sbtc", !.network = "stacks",
        !.breakdown = IF recipient # NoRecipient
                        THEN [has |-> TRUE, relayFee |-> basePrice,
                              recipientForward |-> RECIPIENT_AMOUNT,
                              recipientPubkey |-> recipient]
                        ELSE NoBreakdown]

(***************************************************************************)
(* The inputs of the model.                                                *)
(***************************************************************************)
PK1 == <<"p", "1">>

EvNote == Event(<<"a", "1">>, PK1, 1, 100, << >>, "sig")
EvTagged == Event(<<"a", "2">>, PK1, 1, 200, << <<"p", "r1">> >>, "sig")
EvNoSig == Event(<<"a", "3">>, PK1, 1, 100, << >>, "")

Events == {EvNote, EvTagged}

Body(form, event) == [form |-> form, event |-> event]

Headers(xpr, xp) == [xPaymentResponse |-> xpr, xPayment |-> xp]

TxA == <<"a">>
TxB == <<"b">>

NoHeaders == Headers(HAbsent, HAbsent)
HeadersA == Headers(HAbsent, HRaw(TxA))
HeadersB == Headers(HAbsent, HJson(JsUndefined, JsString(TxB)))

\* Proofs: "a", " A" (the same identifier once normalized; the x-payment
\* header is shadowed by x-payment-response), "b", a blank string, a number,
\* and a JSON header that names no transaction.
HeaderSet ==
  { NoHeaders,
    HeadersA,
    Headers(HJson(JsString(<<" ", "A">>), JsUndefined), HRaw(TxB)),
    HeadersB,
    Headers(HAbsent, HJson(JsString(<<" ">>), JsUndefined)),
    Headers(HAbsent, HJson(JsNumber(<<"4", "2">>), JsUndefined)),
    Headers(HAbsent, HJson(JsUndefined, JsUndefined)) }

Request(body, headers) == [body |-> body, headers |-> headers]

Requests ==
  {Request(Body("bad", NoEvent), NoHeaders), Request(Body("json", EvNoSig), NoHeaders)}
    \cup {Request(Body("json", EvNote), h) : h \in HeaderSet}
    \cup {Request(Body("json", EvTagged), h) : h \in {NoHeaders, HeadersA, HeadersB}}

Transfer(recipient, amount) ==
  [present |-> TRUE, recipient_address |-> recipient, amount |-> amount]

FtEvent(type, assetType, recipient, amount) ==
  [event_type |-> type,
   asset |-> [asset_event_type |-> assetType, recipient |-> recipient, amount |-> amount]]

Tx(status, type, transfer, events) ==
  [tx_status |-> status, tx_type |-> type, token_transfer |-> transfer, events |-> events]

Amt(s) == JsString(s)

TxPending == Tx("pending", "token_transfer", Transfer(PAY_TO, Amt(<<"1", "1", "0">>)), << >>)
TxPaid(amount) == Tx("success", "token_transfer", Transfer(PAY_TO, Amt(amount)), << >>)

TxRecords ==
  { Tx("pending", "token_transfer", Transfer(PAY_TO, Amt(<<"1", "1", "0">>)), << >>),
    Tx("success", "smart_contract", NoTransfer, << >>),
    Tx("success", "token_transfer", Transfer(PAY_TO, Amt(<<"1", "1", "0">>)), << >>),
    Tx("success", "token_transfer", Transfer(PAY_TO, Amt(<<"1", "0">>)), << >>),
    Tx("success", "token_transfer", Transfer(PAY_TO, Amt(<<"9">>)), << >>),
    Tx("success", "token_transfer", Transfer(OTHER_ADDR, Amt(<<"1", "1", "0">>)), << >>),
    Tx("success", "token_transfer", Transfer(OTHER_ADDR, Amt(<<"9">>)), << >>),
    Tx("success", "token_transfer", Transfer(PAY_TO, Amt(<<"-", "5">>)), << >>),
    Tx("success", "token_transfer", Transfer(PAY_TO, Amt(<<"1", "x">>)), << >>),
    Tx("success", "token_transfer", Transfer(PAY_TO, JsUndefined), << >>),
    Tx("success", "token_transfer", NoTransfer, << >>),
    Tx("success", "contract_call", NoTransfer, << >>),
    Tx("success", "contract_call", NoTransfer,
       << FtEvent("fungible_token_transfer", "transfer", OTHER_ADDR, Amt(<<"1", "1", "0">>)) >>),
    Tx("success", "contract_call", NoTransfer,
       << FtEvent("fungible_token_asset", "transfer", PAY_TO, Amt(<<"1", "1", "0">>)) >>),
    Tx("success", "contract_call", NoTransfer,
       << FtEvent("fungible_token_asset", "mint", PAY_TO, Amt(<<"1", "1", "0">>)) >>),
    Tx("success", "contract_call", NoTransfer,
       << FtEvent("stx_asset", "transfer", PAY_TO, Amt(<<"1", "1", "0">>)) >>),
    Tx("success", "contract_call", NoTransfer,
       << FtEvent("fungible_token_transfer", "transfer", PAY_TO, Amt(<<"9">>)),
          FtEvent("fungible_token_transfer", "transfer", PAY_TO, Amt(<<"1", "1", "0">>)) >>),
    Tx("success", "contract_call", NoTransfer,
       << FtEvent("fungible_token_transfer", "transfer", OTHER_ADDR, Amt(<<"9">>)),
          FtEvent("fungible_token_transfer", "transfer", PAY_TO, Amt(<<"1", "0">>)) >>),
    Tx("success", "contract_call", NoTransfer,
       << FtEvent("fungible_token_transfer", "transfer", PAY_TO, Amt(<<"x">>)) >>) }

AllOutcomes ==
  {Outcome("neterr", 0, NoTx), Outcome("notok", 404, NoTx), Outcome("badbody", 200, NoTx)}
    \cup {Outcome("tx", 200, t) : t \in TxRecords}

\* The ledger answers the relay's lookups draw from.
Outcomes ==
  { Outcome("neterr", 0, NoTx),
    Outcome("tx", 200, TxPending),
    Outcome("tx", 200, TxPaid(<<"1", "1", "0">>)),
    Outcome("tx", 200, TxPaid(<<"1", "0">>)),
    Outcome("tx", 200, TxPaid(<<"9">>)) }

FilterP == [EmptyFilter EXCEPT !.tags = [x \in {"p"} |-> <<"r1">>]]

FilterLists == {<<FilterP>>}

Conns == {"w1"}
SubIds == {"s1"}

\* A deployment: the entry point that is run, whether the durable store
\* opened at startup, and whether the relay wallet key is configured.
Deployment(entry, db, wallet) == [entry |-> entry, db |-> db, wallet |-> wallet]

Deployments ==
  { Deployment("index", FALSE, FALSE),
    Deployment("v060", TRUE, TRUE),
    Deployment("v060", FALSE, FALSE) }

NoAddress == [type |-> "none", address |-> << >>, source |-> ""]
Addresses ==
  {NoAddress, [type |-> "stx", address |-> OTHER_ADDR, source |-> "nostr-profile"]}

ForwardResults == {[success |-> TRUE, txId |-> <<"f">>], [success |-> FALSE, txId |-> << >>]}

(***************************************************************************)
(* State.                                                                  *)
(***************************************************************************)
VARIABLES
  deploy,         \* the deployment (fixed)
  usedTxIds,      \* x402.mjs: the in-memory Set of consumed proof identifiers
  usedTxDb,       \* used_tx_ids table (durable)
  events,         \* stored events: the Map / the events table, in insertion order
  memory,         \* relay.mjs EventStore.memory of a second store, one whose
                  \* database did not open (the store specification only)
  payouts,        \* payouts table (durable)
  subscriptions,  \* Relay.subscriptions: ws -> (subId -> filters), in insertion order
  readyState,     \* ws.readyState per connection
  inflight,       \* HTTP requests suspended at an await
  acceptedHere,   \* history: the identifiers verifyPayment has accepted since the
                  \* last start of the process
  fn,             \* the call made by the last step of the sequential specification
  httpReq,        \* the HTTP request received by the last step
  httpResp,       \* the HTTP response sent by the last step
  injected,       \* the injectEvent call made by the last step
  wsSent          \* the WebSocket messages sent by the last step

config == <<deploy, fn, memory>>
durable == <<usedTxDb, payouts>>
relayVars == <<subscriptions, readyState>>
history == <<acceptedHere>>
outputs == <<httpReq, httpResp, injected, wsSent>>
vars == <<deploy, usedTxIds, usedTxDb, events, memory, payouts, subscriptions, readyState,
          inflight, acceptedHere, fn, httpReq, httpResp, injected, wsSent>>

NoInject ==
  [has |-> FALSE, event |-> NoEvent, txId |-> JsNull, required |-> 0,
   verification |-> NoResult, added |-> FALSE]

NoReq == [has |-> FALSE, body |-> Body("none", NoEvent), headers |-> NoHeaders]
Received(body, headers) == [has |-> TRUE, body |-> body, headers |-> headers]

NoCall ==
  [name |-> "none", txId |-> JsNull, required |-> 0, outcome |-> NoOutcome,
   result |-> NoResult, event |-> NoEvent, price |-> 0]

Pending(stage, event, txId, required, usedAtStart, added) ==
  [stage |-> stage, event |-> event, txId |-> txId, required |-> required,
   usedAtStart |-> usedAtStart, added |-> added,
   address |-> NoAddress]

Init ==
  /\ deploy \in Deployments
  /\ usedTxIds = {}
  /\ usedTxDb = {}
  /\ events = << >>
  /\ memory = << >>
  /\ payouts = << >>
  /\ subscriptions = << >>
  /\ readyState = [w \in Conns |-> "none"]
  /\ inflight = EmptyBag
  /\ acceptedHere = {}
  /\ fn = NoCall
  /\ httpReq = NoReq
  /\ httpResp = NoResp
  /\ injected = NoInject
  /\ wsSent = << >>

\* A callback runs to its end before the next one starts: what the last one
\* received and wrote is no longer at hand when the next one runs.
Idle ==
  /\ httpReq = NoReq /\ httpResp = NoResp /\ injected = NoInject /\ wsSent = << >>

(***************************************************************************)
(* relay.mjs: Relay._broadcast and Relay.injectEvent.                      *)
(***************************************************************************)
Msg(ws, type, subId, event, text) ==
  [ws |-> ws, type |-> type, subId |-> subId, event |-> event, text |-> text]

\* A mutant of the reply to EVENT: the write is reported as accepted.
OkMsgAccepted(ws, id, accepted, text) ==
  [ws |-> ws, type |-> "OK", subId |-> id, event |-> NoEvent, text |-> text,
   accepted |-> TRUE]

\* ['OK', id, accepted, text].
OkMsg(ws, id, accepted, text) ==
  [ws |-> ws, type |-> "OK", subId |-> id, event |-> NoEvent, text |-> text,
   accepted |-> accepted]

RECURSIVE SubsMessages(_, _, _)
SubsMessages(ws, subs, event) ==
  IF subs = << >> THEN << >>
  ELSE (IF matchFilters(event, Head(subs).filters)
          THEN <<Msg(ws, "EVENT", Head(subs).id, event, "")>> ELSE << >>)
       \o SubsMessages(ws, Tail(subs), event)

\* A mutant of _broadcast: nothing is sent.
broadcastNone(subscr, ready, event) == << >>

\* A mutant of _broadcast: readyState is not looked at.
RECURSIVE broadcastAnyState(_, _, _)
broadcastAnyState(subscr, ready, event) ==
  IF subscr = << >> THEN << >>
  ELSE SubsMessages(Head(subscr).ws, Head(subscr).subs, event)
       \o broadcastAnyState(Tail(subscr), ready, event)

RECURSIVE broadcast(_, _, _)
broadcast(subscr, ready, event) ==
  IF subscr = << >> THEN << >>
  ELSE (IF ready[Head(subscr).ws] # "open" THEN << >>
        ELSE SubsMessages(Head(subscr).ws, Head(subscr).subs, event))
       \o broadcast(Tail(subscr), ready, event)

\* A mutant of injectEvent: the event is broadcast whatever add returned.
injectEventAlwaysBroadcast(db, evs, subscr, ready, event) ==
  LET r == add(db, evs, event) IN
  [added |-> r.added, events |-> r.events, sent |-> broadcast(subscr, ready, event)]

injectEvent(db, evs, subscr, ready, event) ==
  LET r == add(db, evs, event) IN
  [added |-> r.added, events |-> r.events,
   sent |-> IF r.added THEN broadcast(subscr, ready, event) ELSE << >>]

(***************************************************************************)
(* x402.mjs: verifyPayment, the part before the ledger lookup (lines       *)
(* 119-126) and the update of the consumed set (line 173).                 *)
(***************************************************************************)
Lookup == Result(FALSE, "lookup", "", 0, 0)

\* A mutant of verifyPayment: the identifier is compared as presented.
verifyPaymentStartNoNormalize(txId, used) ==
  IF normalizeTxId(txId) = << >> THEN Reject("Missing transaction ID")
  ELSE IF normalizeTxIdNoFold(txId) \in used THEN Reject("Transaction already used")
  ELSE Lookup

verifyPaymentStart(txId, used) ==
  LET normalizedTxId == normalizeTxId(txId) IN
  IF normalizedTxId = << >> THEN Reject("Missing transaction ID")
  ELSE IF normalizedTxId \in used THEN Reject("Transaction already used")
  ELSE Lookup

\* A mutant of verifyPayment: the identifier is consumed whatever the result.
usedAfterAlways(used, txId, res) == used \cup {normalizeTxId(txId)}

usedAfter(used, txId, res) ==
  IF res.valid THEN used \cup {normalizeTxId(txId)} ELSE used

\* The identifier a proof stands for: trimmed and lower-cased.
ProofKey(txId) == IF txId.type = "string" THEN toLowerCase(trim(txId.val)) ELSE << >>

Failed(event, txId, required, res, outcome, usedAtStart) ==
  [Response(402, "Payment verification failed") EXCEPT
     !.detail = res, !.event = event, !.txId = txId, !.required = required,
     !.outcome = outcome, !.usedAtStart = usedAtStart]

Accepted(p, outcome, added, forwarding) ==
  [Response(200, "") EXCEPT
     !.detail = Valid, !.event = p.event, !.txId = p.txId, !.required = p.required,
     !.outcome = outcome, !.usedAtStart = p.usedAtStart,
     !.added = added, !.forwarding = forwarding]

HasRecipientInFlight ==
  BagCardinality([p \in {q \in BagToSet(inflight) : getRecipient(q.event) # NoRecipient}
                    |-> inflight[p]])

(***************************************************************************)
(* POST /api/events up to the first await that suspends the handler.       *)
(***************************************************************************)
PostBegin(body, headers, required) ==
  LET event == body.event
      txId == extractPayment(headers)
      start == verifyPaymentStart(txId, usedTxIds)
      usedAtStart == ProofKey(txId) \in acceptedHere
  IN
  /\ Idle
  /\ httpReq' = Received(body, headers)
  /\ injected' = NoInject
  /\ wsSent' = << >>
  /\ UNCHANGED <<config, usedTxIds, durable, events, relayVars, history>>
  /\ IF body.form = "bad"
       THEN httpResp' = Response(400, "Invalid JSON") /\ UNCHANGED inflight
     ELSE IF event.id = << >> \/ event.pubkey = << >> \/ event.kind = NullKind
             \/ event.sig = ""
       THEN /\ httpResp' = Response(400, "Invalid event: missing required fields")
            /\ UNCHANGED inflight
     ELSE IF ~Truthy(txId)
       THEN httpResp' = build402Response(event) /\ UNCHANGED inflight
     ELSE IF start # Lookup
       THEN /\ httpResp' = Failed(event, txId, required, start, NoOutcome,
                                  usedAtStart)
            /\ UNCHANGED inflight
     ELSE /\ BagCardinality(inflight) < MaxInFlight
          /\ (deploy.db /\ getRecipient(event) # NoRecipient) =>
               Len(payouts) + HasRecipientInFlight < MaxPayouts
          /\ httpResp' = NoResp
          /\ inflight' = inflight (+)
               SetToBag({Pending("fetch", event, txId, required, usedAtStart,
                                 FALSE)})

\* index.mjs lines 213-238.
PostEvents ==
  /\ deploy.entry = "index"
  /\ \E req \in Requests : PostBegin(req.body, req.headers, getPriceOfKind(req.body.event.kind))

\* The v0.6.0 entry point, lines 128-150.
PostEventsV060 ==
  /\ deploy.entry = "v060"
  /\ \E req \in Requests : PostBegin(req.body, req.headers, getPrice(req.body.event))


(***************************************************************************)
(* The ledger lookup of a suspended verifyPayment returns: x402.mjs lines  *)
(* 130-177, then the rest of the handler up to its next await.             *)
(***************************************************************************)
Remove(p) == inflight (-) SetToBag({p})
Replace(p, q) == (inflight (-) SetToBag({p})) (+) SetToBag({q})

\* used_tx_ids: INSERT OR IGNORE of the identifier as presented.
markTxUsed(db, table, txId) == IF db THEN table \cup {txId} ELSE table

Injection(p, res, added) ==
  [has |-> TRUE, event |-> p.event, txId |-> p.txId, required |-> p.required,
   verification |-> res, added |-> added]

FetchReturn(p, outcome) ==
  LET res == verifyOutcome(outcome, p.required)
      inj == injectEvent(deploy.db, events, subscriptions, readyState, p.event)
      awaitsLookup == deploy.entry = "v060" /\ getRecipient(p.event) # NoRecipient
  IN
  /\ Idle
  /\ p.stage = "fetch"
  /\ httpReq' = NoReq
  /\ usedTxIds' = usedAfter(usedTxIds, p.txId, res)
  /\ UNCHANGED <<config, payouts, relayVars>>
  /\ IF ~res.valid
       THEN /\ httpResp' = Failed(p.event, p.txId, p.required, res, outcome,
                                  p.usedAtStart)
            /\ inflight' = Remove(p)
            /\ injected' = NoInject
            /\ wsSent' = << >>
            /\ UNCHANGED <<usedTxDb, events, history>>
       ELSE /\ acceptedHere' = acceptedHere \cup {ProofKey(p.txId)}
            /\ usedTxDb' = IF deploy.entry = "v060"
                             THEN markTxUsed(deploy.db, usedTxDb, p.txId) ELSE usedTxDb
            /\ events' = inj.events
            /\ wsSent' = inj.sent
            /\ injected' = Injection(p, res, inj.added)
            /\ IF awaitsLookup
                 THEN /\ inflight' = Replace(p, [p EXCEPT !.stage = "resolve",
                                                          !.added = inj.added])
                      /\ httpResp' = NoResp
                 ELSE /\ inflight' = Remove(p)
                      /\ httpResp' = Accepted(p, outcome, inj.added, NoForwarding)

\* index.mjs lines 238-255.
VerifyReturn ==
  /\ deploy.entry = "index"
  /\ \E p \in BagToSet(inflight), outcome \in Outcomes : FetchReturn(p, outcome)

\* The v0.6.0 entry point, lines 150-173.
VerifyReturnV060 ==
  /\ deploy.entry = "v060"
  /\ \E p \in BagToSet(inflight), outcome \in Outcomes : FetchReturn(p, outcome)

PayoutRow(recipient, amount, eventId, address) ==
  [recipient_pubkey |-> recipient, amount |-> amount, event_id |-> eventId,
   payment_address |-> address.address, payment_type |-> address.type,
   payment_source |-> address.source, forward_tx |-> << >>, status |-> "pending"]

\* EventStore.recordPayout: a no-op without the durable backend.
recordPayout(db, table, recipient, amount, eventId, address) ==
  IF db THEN Append(table, PayoutRow(recipient, amount, eventId, address)) ELSE table

\* EventStore.updatePayoutTx: UPDATE ... WHERE event_id = ?
updatePayoutTx(db, table, eventId, txId, status) ==
  IF db THEN [i \in 1..Len(table) |->
                IF table[i].event_id = eventId
                  THEN [table[i] EXCEPT !.forward_tx = txId, !.status = status]
                  ELSE table[i]]
        ELSE table

\* The v0.6.0 entry point, lines 173-203: resolvePaymentAddress returned
\* (address.type = "none" also stands for a lookup that threw).
ResolveReturn ==
  /\ Idle
  /\ deploy.entry = "v060"
  /\ \E p \in BagToSet(inflight), address \in Addresses :
       /\ p.stage = "resolve"
       /\ payouts' = recordPayout(deploy.db, payouts, getRecipient(p.event),
                                  RECIPIENT_AMOUNT, p.event.id, address)
       /\ httpReq' = NoReq
       /\ injected' = NoInject
       /\ wsSent' = << >>
       /\ UNCHANGED <<config, usedTxIds, usedTxDb, events, relayVars, history>>
       /\ IF address.type = "stx" /\ deploy.wallet
            THEN /\ inflight' = Replace(p, [p EXCEPT !.stage = "forward",
                                                     !.address = address])
                 /\ httpResp' = NoResp
            ELSE /\ inflight' = Remove(p)
                 /\ httpResp' = Accepted(p, NoOutcome, p.added,
                                         IF address.type # "none" THEN "pending" ELSE "held")

\* The v0.6.0 entry point, lines 181-203: forwardSbtc returned.
ForwardReturn ==
  /\ Idle
  /\ deploy.entry = "v060"
  /\ \E p \in BagToSet(inflight), fwd \in ForwardResults :
       /\ p.stage = "forward"
       /\ payouts' = updatePayoutTx(deploy.db, payouts, p.event.id, fwd.txId,
                                    IF fwd.success THEN "sent" ELSE "failed")
       /\ inflight' = Remove(p)
       /\ httpResp' = Accepted(p, NoOutcome, p.added,
                               IF fwd.success THEN "sent" ELSE "failed")
       /\ httpReq' = NoReq
       /\ injected' = NoInject
       /\ wsSent' = << >>
       /\ UNCHANGED <<config, usedTxIds, usedTxDb, events, relayVars, history>>

(***************************************************************************)
(* relay.mjs: the WebSocket side.                                          *)
(***************************************************************************)
Quiet == httpReq' = NoReq /\ httpResp' = NoResp /\ injected' = NoInject

FindWs(subscr, ws) ==
  IF \E i \in 1..Len(subscr) : subscr[i].ws = ws
    THEN CHOOSE i \in 1..Len(subscr) : subscr[i].ws = ws ELSE 0

FindSub(subs, id) ==
  IF \E i \in 1..Len(subs) : subs[i].id = id
    THEN CHOOSE i \in 1..Len(subs) : subs[i].id = id ELSE 0

\* A mutant of Map.prototype.set: an existing key keeps its value.
SetSubKeepOld(subs, id, filters) ==
  IF \E i \in 1..Len(subs) : subs[i].id = id THEN subs
  ELSE Append(subs, [id |-> id, filters |-> filters])

\* Map.prototype.set: an existing key keeps its place.
SetSub(subs, id, filters) ==
  LET i == FindSub(subs, id) IN
  IF i = 0 THEN Append(subs, [id |-> id, filters |-> filters])
  ELSE [subs EXCEPT ![i] = [id |-> id, filters |-> filters]]

\* A mutant of Map.prototype.delete: the key stays.
DeleteSubNone(subs, id) == subs

DeleteSub(subs, id) ==
  LET i == FindSub(subs, id) IN IF i = 0 THEN subs ELSE RemoveAt(subs, i)

RECURSIVE EventMessages(_, _, _)
EventMessages(ws, subId, evs) ==
  IF evs = << >> THEN << >>
  ELSE <<Msg(ws, "EVENT", subId, Head(evs), "")>> \o EventMessages(ws, subId, Tail(evs))

RECURSIVE Snapshot(_, _, _, _, _)
Snapshot(db, evs, ws, subId, filters) ==
  IF filters = << >> THEN << >>
  ELSE EventMessages(ws, subId, query(db, evs, Head(filters)))
       \o Snapshot(db, evs, ws, subId, Tail(filters))

\* relay.mjs line 39: a connection is accepted.
Connect ==
  \E ws \in Conns :
    /\ Idle
    /\ readyState[ws] = "none"
    /\ readyState' = [readyState EXCEPT ![ws] = "open"]
    /\ subscriptions' = Append(subscriptions, [ws |-> ws, subs |-> << >>])
    /\ wsSent' = << >>
    /\ Quiet
    /\ UNCHANGED <<config, usedTxIds, durable, events, inflight, history>>

\* relay.mjs lines 77-103: REQ.
WsReq ==
  \E ws \in Conns, subId \in SubIds, filters \in FilterLists :
    LET i == FindWs(subscriptions, ws) IN
    /\ Idle
    /\ readyState[ws] = "open"
    /\ subscriptions' = [subscriptions EXCEPT
                           ![i].subs = SetSub(subscriptions[i].subs, subId, filters)]
    /\ wsSent' = Snapshot(deploy.db, events, ws, subId, filters)
                   \o <<Msg(ws, "EOSE", subId, NoEvent, "")>>
    /\ Quiet
    /\ UNCHANGED <<config, usedTxIds, durable, events, readyState, inflight, history>>

\* relay.mjs lines 105-110: CLOSE.
WsClose ==
  \E ws \in Conns, subId \in SubIds :
    LET i == FindWs(subscriptions, ws) IN
    /\ Idle
    /\ readyState[ws] = "open"
    /\ subscriptions' = [subscriptions EXCEPT
                           ![i].subs = DeleteSub(subscriptions[i].subs, subId)]
    /\ wsSent' = << >>
    /\ Quiet
    /\ UNCHANGED <<config, usedTxIds, durable, events, readyState, inflight, history>>

\* relay.mjs lines 66-75: EVENT over the WebSocket.
WsEvent ==
  \E ws \in Conns, event \in Events :
    /\ Idle
    /\ readyState[ws] = "open"
    /\ wsSent' = <<OkMsg(ws, event.id, FALSE,
                         "payment-required: publish via HTTP POST /api/events")>>
    /\ Quiet
    /\ UNCHANGED <<config, usedTxIds, durable, events, relayVars, inflight, history>>

\* relay.mjs lines 56-58: the close event.
WsClosed ==
  \E ws \in Conns :
    /\ Idle
    /\ readyState[ws] \in {"open", "closing"}
    /\ readyState' = [readyState EXCEPT ![ws] = "none"]
    /\ subscriptions' = RemoveAt(subscriptions, FindWs(subscriptions, ws))
    /\ wsSent' = << >>
    /\ Quiet
    /\ UNCHANGED <<config, usedTxIds, durable, events, inflight, history>>

(***************************************************************************)
(* The process is restarted: module state and the memory store are lost,   *)
(* the tables of the durable store are kept.                               *)
(***************************************************************************)
Restart ==
  /\ Idle
  /\ usedTxIds' = {}
  /\ acceptedHere' = {}
  /\ inflight' = EmptyBag
  /\ subscriptions' = << >>
  /\ readyState' = [w \in Conns |-> "none"]
  /\ events' = IF deploy.db THEN events ELSE << >>
  /\ wsSent' = << >>
  /\ Quiet
  /\ UNCHANGED <<config, durable>>

\* The callback returns: the response and the messages it wrote have left
\* the process.
Returned ==
  /\ ~Idle
  /\ httpReq' = NoReq /\ httpResp' = NoResp /\ injected' = NoInject /\ wsSent' = << >>
  /\ UNCHANGED <<config, usedTxIds, durable, events, relayVars, inflight, history>>

Next ==
  \/ PostEvents
  \/ PostEventsV060
  \/ VerifyReturn
  \/ VerifyReturnV060
  \/ ResolveReturn
  \/ ForwardReturn
  \/ Connect
  \/ WsReq
  \/ WsClose
  \/ WsEvent
  \/ WsClosed
  \/ Restart
  \/ Returned

Spec == Init /\ [][Next]_vars


(***************************************************************************)
(* The sequential specification: one call at a time of verifyPayment (the  *)
(* lookup answered at once) and of getPrice, on inputs drawn from larger   *)
(* sets, as the unit tests of the repository call them.                    *)
(***************************************************************************)
ProofInputs ==
  {JsString(TxA), JsString(<<" ", "A">>), JsString(TxB), JsString(<<" ">>),
   JsNumber(<<"4", "2">>)}

PriceInputs == {5, 10, 110}

PriceKinds == {0, 1, 3, 4, 7, 10002, 20001, 30023}

TagLists ==
  { << >>,
    << <<"p", "r1">> >>,
    << <<"e", "x">> >>,
    << <<"e", "x">>, <<"p", "r1">> >>,
    << <<"p", "">> >>,
    << <<"p">> >>,
    << <<"p", "">>, <<"p", "r2">> >> }

PriceEvents == {Event(<<"a", "1">>, PK1, k, 100, t, "sig") : k \in PriceKinds, t \in TagLists}

InitFn ==
  /\ Init
  /\ deploy = Deployment("index", FALSE, FALSE)

FnFrame ==
  /\ httpReq' = NoReq /\ httpResp' = NoResp /\ injected' = NoInject /\ wsSent' = << >>
  /\ UNCHANGED <<deploy, durable, events, memory, relayVars, inflight, history>>

\* x402.mjs lines 118-178, the lookup answered with `outcome`.
FnVerifyPayment ==
  \E txId \in ProofInputs, required \in PriceInputs, outcome \in AllOutcomes :
    LET start == verifyPaymentStart(txId, usedTxIds)
        res == IF start # Lookup THEN start ELSE verifyOutcome(outcome, required)
    IN /\ fn' = [NoCall EXCEPT !.name = "verifyPayment", !.txId = txId,
                               !.required = required,
                               !.outcome = IF start # Lookup THEN NoOutcome ELSE outcome,
                               !.result = res]
       /\ usedTxIds' = IF start # Lookup THEN usedTxIds ELSE usedAfter(usedTxIds, txId, res)
       /\ FnFrame

\* x402.mjs lines 66-70, called with an event.
FnGetPrice ==
  \E event \in PriceEvents :
    /\ fn' = [NoCall EXCEPT !.name = "getPrice", !.event = event, !.price = getPrice(event)]
    /\ UNCHANGED usedTxIds
    /\ FnFrame

\* x402.mjs lines 66-70, called with a kind (a number).
FnGetPriceOfKind ==
  \E kind \in PriceKinds :
    /\ fn' = [NoCall EXCEPT !.name = "getPriceOfKind", !.required = kind,
                            !.price = getPriceOfKind(kind)]
    /\ UNCHANGED usedTxIds
    /\ FnFrame

NextFn == FnVerifyPayment \/ FnGetPrice \/ FnGetPriceOfKind

SpecFn == InitFn /\ [][NextFn]_vars

(***************************************************************************)
(* The store specification: two event stores receive the same calls, one   *)
(* whose database opened (`events` holds its rows) and one that fell back  *)
(* to the Map (`memory`).  Events reach them through Relay.injectEvent; a  *)
(* connection with two subscriptions is open and another one has closed.   *)
(***************************************************************************)
MaxStore == 3

PK2 == <<"p", "2">>

StoreEvents ==
  { Event(<<"n", "1">>, PK1, 1, 200, << >>, "sig"),
    Event(<<"n", "2">>, PK1, 1, 100, << <<"p", "r1">> >>, "sig"),
    Event(<<"n", "1">>, PK1, 0, 300, << >>, "sig"),
    Event(<<"r", "1">>, PK1, 0, 100, << >>, "sig"),
    Event(<<"r", "2">>, PK1, 0, 200, << >>, "sig"),
    Event(<<"r", "3">>, PK1, 0, 200, << >>, "sig"),
    Event(<<"r", "4">>, PK2, 0, 100, << >>, "sig"),
    Event(<<"d", "1">>, PK1, 30000, 100, << <<"d", "x">> >>, "sig"),
    Event(<<"d", "2">>, PK1, 30000, 200, << <<"d", "x">> >>, "sig"),
    Event(<<"d", "3">>, PK1, 30000, 100, << <<"d", "y">> >>, "sig"),
    Event(<<"d", "4">>, PK1, 30000, 200, << >>, "sig"),
    Event(<<"d", "5">>, PK1, 30000, 100, << <<"d">> >>, "sig"),
    Event(<<"e", "1">>, PK1, 20000, 300, << <<"p", "r1">> >>, "sig"),
    Event(<<"e", "2">>, PK1, 29999, 300, << >>, "sig") }

\* Filters whose fields are present with an empty list: { ids: [],
\* authors: [], kinds: [] } and { "#p": [] }.
FilterEmptyLists ==
  [EmptyFilter EXCEPT !.ids = Present(<< >>), !.authors = Present(<< >>),
                      !.kinds = Present(<< >>)]
FilterEmptyTag == [EmptyFilter EXCEPT !.tags = [x \in {"p"} |-> << >>]]

StoreFilters ==
  { EmptyFilter,
    FilterEmptyLists,
    FilterEmptyTag,
    [EmptyFilter EXCEPT !.limit = Present(0)],
    [EmptyFilter EXCEPT !.limit = Present(1)],
    [EmptyFilter EXCEPT !.limit = Present(2)],
    FilterP,
    [FilterP EXCEPT !.limit = Present(1)],
    [EmptyFilter EXCEPT !.kinds = Present(<<0, 30000>>)],
    [EmptyFilter EXCEPT !.kinds = Present(<<20000, 29999>>)] }

\* The numbers of stored events that pass a filter, around the LIMIT of
\* _queryDb.
StoreSizes == {0, 1, 4999, 5000, 5001}

StoreSubs ==
  << [ws |-> "w1",
      subs |-> << [id |-> "s1", filters |-> <<FilterP>>],
                  [id |-> "s2", filters |-> <<EmptyFilter>>] >>],
     [ws |-> "w2", subs |-> << [id |-> "s1", filters |-> <<EmptyFilter>>] >>] >>

StoreReady == [w \in {"w1", "w2"} |-> IF w = "w1" THEN "open" ELSE "closed"]

InitStore ==
  /\ deploy = Deployment("v060", TRUE, TRUE)
  /\ usedTxIds = {}
  /\ usedTxDb = {}
  /\ events = << >>
  /\ memory = << >>
  /\ payouts = << >>
  /\ subscriptions = StoreSubs
  /\ readyState = StoreReady
  /\ inflight = EmptyBag
  /\ acceptedHere = {}
  /\ fn = NoCall
  /\ httpReq = NoReq
  /\ httpResp = NoResp
  /\ injected = NoInject
  /\ wsSent = << >>

\* A call of injectEvent or of query on the two stores: what was passed, the
\* values returned by the SQLite store (added, rows, length) and by the Map
\* store (addedMem, rowsMem, lengthMem, and the messages sent, sentMem).
NoStoreCall ==
  [name |-> "none", event |-> NoEvent, filter |-> EmptyFilter,
   added |-> FALSE, rows |-> << >>, addedMem |-> FALSE, rowsMem |-> << >>,
   sentMem |-> << >>, matching |-> 0, length |-> 0, lengthMem |-> 0,
   filters |-> << >>, matched |-> FALSE]

StoreFrame ==
  /\ httpReq' = NoReq /\ httpResp' = NoResp /\ injected' = NoInject
  /\ UNCHANGED <<deploy, usedTxIds, durable, relayVars, inflight, history>>

\* relay.mjs Relay.injectEvent (lines 134-140) on both stores.
StInjectEvent ==
  \E event \in StoreEvents :
    LET d == injectEvent(TRUE, events, subscriptions, readyState, event)
        m == injectEvent(FALSE, memory, subscriptions, readyState, event)
    IN /\ fn = NoCall
       /\ Len(d.events) <= MaxStore
       /\ Len(m.events) <= MaxStore
       /\ events' = d.events
       /\ memory' = m.events
       /\ wsSent' = d.sent
       /\ fn' = [NoStoreCall EXCEPT !.name = "injectEvent", !.event = event,
                               !.added = d.added, !.addedMem = m.added,
                               !.sentMem = m.sent]
       /\ StoreFrame

\* EventStore.query on both stores.
StQuery ==
  \E filter \in StoreFilters :
    /\ fn = NoCall
    /\ fn' = [NoStoreCall EXCEPT !.name = "query", !.filter = filter,
                            !.rows = query(TRUE, events, filter),
                            !.rowsMem = query(FALSE, memory, filter),
                            !.matching = Cardinality({i \in 1..Len(events) :
                                                       matchFilter(events[i], filter)}),
                            !.length = Len(query(TRUE, events, filter)),
                            !.lengthMem = Len(query(FALSE, memory, filter))]
    /\ wsSent' = << >>
    /\ UNCHANGED <<events, memory>>
    /\ StoreFrame

\* EventStore.query on two stores that hold more events than the model
\* enumerates, `matching` of which pass the filter: the lengths returned.
StQueryLarge ==
  \E matching \in StoreSizes, filter \in {f \in StoreFilters : DOMAIN f.tags = {}} :
    /\ fn = NoCall
    /\ events = << >> /\ memory = << >>
    /\ fn' = [NoStoreCall EXCEPT !.name = "queryLarge", !.filter = filter,
                            !.matching = matching,
                            !.length = queryLength(TRUE, matching, filter),
                            !.lengthMem = queryLength(FALSE, matching, filter)]
    /\ wsSent' = << >>
    /\ UNCHANGED <<events, memory>>
    /\ StoreFrame

\* The events and filters matchFilter is called with, as the filter tests
\* call it: every combination of the fields.
MatchEvents ==
  { Event(<<"a", "b", "c">>, <<"d", "e">>, 1, 100, << >>, "sig"),
    Event(<<"a", "b", "c">>, <<"d", "e">>, 1, 100,
          << <<"e", "x">>, <<"p", "r1">>, <<"p">> >>, "sig"),
    Event(<<"a">>, <<"c", "a">>, 0, 99, << <<"p", "r2">> >>, "sig"),
    Event(<<"x", "y">>, <<"d">>, 4, 101, << <<"e", "r1">> >>, "sig") }

MatchFilters ==
  { Filter(ids, authors, kinds, since, until, Absent(0), tags) :
      ids \in {Absent(<< >>), Present(<< <<"a", "b">> >>),
               Present(<< <<"x", "y", "z">>, <<"a">> >>)},
      authors \in {Absent(<< >>), Present(<< <<"d">> >>),
                   Present(<< <<"c">>, <<"d", "e">> >>)},
      kinds \in {Absent(<< >>), Present(<<1>>), Present(<<0, 4>>)},
      since \in {Absent(0), Present(100)},
      until \in {Absent(0), Present(100)},
      tags \in {NoTags, [x \in {"p"} |-> <<"r1">>],
                [x \in {"p"} |-> <<"r3", "r2">>],
                [x \in {"e", "p"} |-> IF x = "e" THEN <<"x">> ELSE <<"r1">>]} }

MatchFilterLists ==
  { << >>,
    <<EmptyFilter>>,
    <<FilterP>>,
    <<[EmptyFilter EXCEPT !.kinds = Present(<<0>>)], [EmptyFilter EXCEPT !.kinds = Present(<<1>>)]>>,
    <<[EmptyFilter EXCEPT !.kinds = Present(<<0>>)], [EmptyFilter EXCEPT !.kinds = Present(<<2>>)]>>,
    <<FilterP, [EmptyFilter EXCEPT !.since = Present(101)]>> }

\* matchFilter(event, filter).
StMatchFilter ==
  \E event \in MatchEvents, filter \in MatchFilters :
    /\ fn = NoCall
    /\ events = << >> /\ memory = << >>
    /\ fn' = [NoStoreCall EXCEPT !.name = "matchFilter", !.event = event,
                                 !.filter = filter,
                                 !.matched = matchFilter(event, filter)]
    /\ wsSent' = << >>
    /\ UNCHANGED <<events, memory>>
    /\ StoreFrame

\* matchFilters(event, filters).
StMatchFilters ==
  \E event \in MatchEvents, filters \in MatchFilterLists :
    /\ fn = NoCall
    /\ events = << >> /\ memory = << >>
    /\ fn' = [NoStoreCall EXCEPT !.name = "matchFilters", !.event = event,
                                 !.filters = filters,
                                 !.matched = matchFilters(event, filters)]
    /\ wsSent' = << >>
    /\ UNCHANGED <<events, memory>>
    /\ StoreFrame

\* The call has returned: what it returned is no longer at hand.
StReturned ==
  /\ fn # NoCall
  /\ fn' = NoCall
  /\ wsSent' = << >>
  /\ UNCHANGED <<events, memory>>
  /\ StoreFrame

NextStore ==
  \/ StInjectEvent \/ StQuery \/ StQueryLarge
  \/ StMatchFilter \/ StMatchFilters
  \/ StReturned

SpecStore == InitStore /\ [][NextStore]_vars

(***************************************************************************)
(* The relay specification: two WebSocket connections, their REQ, CLOSE    *)
(* and EVENT messages, and events published through Relay.injectEvent,     *)
(* on a relay with the SQLite store or with the Map store.                 *)
(***************************************************************************)
RelayConns == {"w1", "w2"}
RelaySubIds == {"s1", "s2"}

FilterAll == <<EmptyFilter>>
FilterBoth == <<FilterP, EmptyFilter>>

\* The REQ messages the connections send: [ws, subId, filters].
RelayReqs ==
  { <<"w1", "s1", <<FilterP>> >>, <<"w1", "s1", FilterAll>>, <<"w1", "s1", FilterBoth>>,
    <<"w1", "s2", <<FilterP>> >>,
    <<"w2", "s1", <<FilterP>> >> }

RelayEvents ==
  { Event(<<"n", "1">>, PK1, 1, 200, << >>, "sig"),
    Event(<<"n", "2">>, PK1, 1, 100, << <<"p", "r1">> >>, "sig"),
    Event(<<"r", "1">>, PK1, 0, 100, << <<"p", "r1">> >>, "sig"),
    Event(<<"r", "2">>, PK1, 0, 200, << >>, "sig"),
    Event(<<"e", "1">>, PK1, 20000, 300, << <<"p", "r1">> >>, "sig") }

\* What the last callback of the relay was called with, and what add returned.
NoRelayCall ==
  [name |-> "none", ws |-> "", subId |-> "", filters |-> << >>,
   old |-> << >>, event |-> NoEvent, added |-> FALSE]

InitRelay ==
  /\ deploy \in {Deployment("v060", TRUE, TRUE), Deployment("v060", FALSE, FALSE)}
  /\ usedTxIds = {}
  /\ usedTxDb = {}
  /\ events = << >>
  /\ memory = << >>
  /\ payouts = << >>
  /\ subscriptions = << >>
  /\ readyState = [w \in RelayConns |-> "none"]
  /\ inflight = EmptyBag
  /\ acceptedHere = {}
  /\ fn = NoCall
  /\ httpReq = NoReq
  /\ httpResp = NoResp
  /\ injected = NoInject
  /\ wsSent = << >>

RelayFrame ==
  /\ httpReq' = NoReq /\ httpResp' = NoResp /\ injected' = NoInject
  /\ UNCHANGED <<deploy, memory, usedTxIds, durable, inflight, history>>

\* relay.mjs lines 38-39: a connection is accepted.
RlConnect ==
  \E ws \in RelayConns :
    /\ fn = NoCall
    /\ readyState[ws] = "none"
    /\ readyState' = [readyState EXCEPT ![ws] = "open"]
    /\ subscriptions' = Append(subscriptions, [ws |-> ws, subs |-> << >>])
    /\ fn' = [NoRelayCall EXCEPT !.name = "connection", !.ws = ws]
    /\ wsSent' = << >>
    /\ UNCHANGED events
    /\ RelayFrame

\* The filter list a connection has under an id, << >> when it has none.
FiltersOf(subscr, ws, subId) ==
  LET i == FindWs(subscr, ws) IN
  IF i = 0 \/ FindSub(subscr[i].subs, subId) = 0 THEN << >>
  ELSE subscr[i].subs[FindSub(subscr[i].subs, subId)].filters

\* relay.mjs lines 77-103: REQ.
RlReq ==
  \E req \in RelayReqs :
    LET ws == req[1]
        subId == req[2]
        filters == req[3]
        i == FindWs(subscriptions, ws)
    IN /\ fn = NoCall
       /\ readyState[ws] = "open"
       /\ subscriptions' = [subscriptions EXCEPT
                              ![i].subs = SetSub(subscriptions[i].subs, subId, filters)]
       /\ wsSent' = Snapshot(deploy.db, events, ws, subId, filters)
                      \o <<Msg(ws, "EOSE", subId, NoEvent, "")>>
       /\ fn' = [NoRelayCall EXCEPT !.name = "REQ", !.ws = ws, !.subId = subId,
                                    !.filters = filters,
                                    !.old = FiltersOf(subscriptions, ws, subId)]
       /\ UNCHANGED <<events, readyState>>
       /\ RelayFrame

\* relay.mjs lines 105-110: CLOSE.
RlClose ==
  \E ws \in RelayConns, subId \in RelaySubIds :
    LET i == FindWs(subscriptions, ws) IN
    /\ fn = NoCall
    /\ readyState[ws] = "open"
    /\ subscriptions' = [subscriptions EXCEPT
                           ![i].subs = DeleteSub(subscriptions[i].subs, subId)]
    /\ wsSent' = << >>
    /\ fn' = [NoRelayCall EXCEPT !.name = "CLOSE", !.ws = ws, !.subId = subId,
                                 !.old = FiltersOf(subscriptions, ws, subId)]
    /\ UNCHANGED <<events, readyState>>
    /\ RelayFrame

\* relay.mjs lines 66-75: EVENT over the WebSocket; msg[1] may have no id.
RlEvent ==
  \E ws \in RelayConns, event \in RelayEvents \cup {NoEvent} :
    /\ fn = NoCall
    /\ readyState[ws] = "open"
    /\ wsSent' = <<OkMsg(ws, event.id, FALSE,
                         "payment-required: publish via HTTP POST /api/events")>>
    /\ fn' = [NoRelayCall EXCEPT !.name = "EVENT", !.ws = ws, !.event = event]
    /\ UNCHANGED <<events, relayVars>>
    /\ RelayFrame

\* The connection starts to close: ws.readyState is no longer OPEN (relay.mjs
\* line 122) and the close event has not been emitted yet.
RlClosing ==
  \E ws \in RelayConns :
    /\ fn = NoCall
    /\ readyState[ws] = "open"
    /\ readyState' = [readyState EXCEPT ![ws] = "closing"]
    /\ wsSent' = << >>
    /\ fn' = [NoRelayCall EXCEPT !.name = "closing", !.ws = ws]
    /\ UNCHANGED <<events, subscriptions>>
    /\ RelayFrame

\* relay.mjs lines 56-58: the close event.
RlClosed ==
  \E ws \in RelayConns :
    /\ fn = NoCall
    /\ readyState[ws] \in {"open", "closing"}
    /\ readyState' = [readyState EXCEPT ![ws] = "none"]
    /\ subscriptions' = RemoveAt(subscriptions, FindWs(subscriptions, ws))
    /\ wsSent' = << >>
    /\ fn' = [NoRelayCall EXCEPT !.name = "close", !.ws = ws]
    /\ UNCHANGED events
    /\ RelayFrame

\* relay.mjs lines 134-140: an event is published.
RlInjectEvent ==
  \E event \in RelayEvents :
    LET r == injectEvent(deploy.db, events, subscriptions, readyState, event) IN
    /\ fn = NoCall
    /\ Len(r.events) <= MaxStore
    /\ events' = r.events
    /\ wsSent' = r.sent
    /\ fn' = [NoRelayCall EXCEPT !.name = "injectEvent", !.event = event,
                                 !.added = r.added]
    /\ UNCHANGED relayVars
    /\ RelayFrame

\* Relay.injectEvent on the relay with the SQLite store when the INSERT
\* throws: _broadcast is not reached.
RlInsertThrows ==
  \E event \in RelayEvents :
    LET r == addDbInsertThrows(events, event) IN
    /\ fn = NoCall
    /\ deploy.db
    /\ InsertReached(events, event)
    /\ events' = r.events
    /\ wsSent' = << >>
    /\ fn' = [NoRelayCall EXCEPT !.name = "injectEventThrew", !.event = event]
    /\ UNCHANGED relayVars
    /\ RelayFrame

\* The callback has returned: what it was called with and what it sent are
\* no longer at hand.
RlReturned ==
  /\ fn # NoCall
  /\ fn' = NoCall
  /\ wsSent' = << >>
  /\ UNCHANGED <<events, relayVars>>
  /\ RelayFrame

NextRelay ==
  \/ RlConnect \/ RlReq \/ RlClose \/ RlEvent \/ RlClosing \/ RlClosed
  \/ RlInjectEvent \/ RlInsertThrows
  \/ RlReturned

SpecRelay == InitRelay /\ [][NextRelay]_vars

(***************************************************************************)
(* The write path with fairness: one POST /api/events at a time.  A        *)
(* handler that is not waiting for anything runs to its next await (weak   *)
(* fairness of Returned); when the promise of the ledger lookup settles is *)
(* decided by the ledger API and the network: verifyPayment passes no      *)
(* timeout and no AbortSignal to fetch (x402.mjs line 129), so nothing in  *)
(* the code makes LiveVerifyReturn happen.                                 *)
(***************************************************************************)
LivePostEvents == inflight = EmptyBag /\ PostEvents
LivePostEventsV060 == inflight = EmptyBag /\ PostEventsV060

\* What the lookup can end with: the answers of Outcomes, a status that is
\* not 2xx, a body that is no JSON, and a JSON body without the fields of a
\* transaction record.
LedgerOutcomes ==
  Outcomes \cup {Outcome("notok", 404, NoTx), Outcome("notok", 500, NoTx),
                 Outcome("badbody", 200, NoTx), Outcome("tx", 200, NoTx)}

\* index.mjs lines 238-255.
LiveVerifyReturn ==
  /\ deploy.entry = "index"
  /\ \E p \in BagToSet(inflight), outcome \in LedgerOutcomes : FetchReturn(p, outcome)

\* The v0.6.0 entry point, lines 150-173.
LiveVerifyReturnV060 ==
  /\ deploy.entry = "v060"
  /\ \E p \in BagToSet(inflight), outcome \in LedgerOutcomes : FetchReturn(p, outcome)

NextLive ==
  \/ LivePostEvents
  \/ LivePostEventsV060
  \/ LiveVerifyReturn
  \/ LiveVerifyReturnV060
  \/ ResolveReturn
  \/ ForwardReturn
  \/ Connect
  \/ WsReq
  \/ Returned

SpecLive == Init /\ [][NextLive]_vars /\ WF_vars(Returned)

\* The same write path with a ledger API that answers every lookup (with a
\* record, a status or a network error): the continuation runs when the
\* callback that is running has returned.
SpecLiveAnswered ==
  SpecLive /\ SF_vars(LiveVerifyReturn) /\ SF_vars(LiveVerifyReturnV060)

(***************************************************************************)
(* Input from the network as it arrives: messages that are no JSON, no     *)
(* array or too short, REQs without a string id or without filters, REQs   *)
(* whose filters are JSON values that are not objects, and HTTP bodies     *)
(* that are no JSON or lack a required field.  No listener of the relay    *)
(* and no handler of the process catches an exception: one that leaves a   *)
(* callback ends the process.                                              *)
(***************************************************************************)
\* JSON values in the place of a filter: null, and a number; and the
\* object { "#p": "ab" }, whose tag field is a string and no list.
NullFilter == [json |-> "null"]
NumberFilter == [json |-> "number"]
StringTagFilter == [json |-> "{#p: string}"]

\* wallet.mjs matchFilter throws a TypeError: reading filter.ids of null
\* (line 139), or calling values.some of a string that has a length (lines
\* 163-168), which happens for every event.
matchThrows(filter) == filter \in {NullFilter, StringTagFilter}

\* EventStore.query throws: _queryDb reads filter.ids of null (line 313)
\* and skips a tag field that is no array (line 350); _queryMemory calls
\* matchFilter for every stored event and then reads filter.limit.
queryThrows(db, evs, filter) ==
  \/ filter = NullFilter
  \/ filter = StringTagFilter /\ ~db /\ evs # << >>

\* Every property of a number reads as undefined and it has no own keys:
\* the code treats it as it treats {}.  The same holds for the query of a
\* filter whose tag field is skipped.
AsFilter(filter) ==
  IF filter \in {NumberFilter, StringTagFilter} THEN EmptyFilter ELSE filter

\* wallet.mjs matchFilters, filters.some(f => matchFilter(event, f)): the
\* value returned, or "throw" when matchFilter reads a property of null
\* before a filter of the list has matched.
RECURSIVE someMatch(_, _)
someMatch(event, filters) ==
  IF filters = << >> THEN "false"
  ELSE IF matchThrows(Head(filters)) THEN "throw"
  ELSE IF matchFilter(event, AsFilter(Head(filters))) THEN "true"
  ELSE someMatch(event, Tail(filters))

\* The (connection, id, filters) entries _broadcast visits, in the order of
\* the two Maps, without the connections that are not open.
RECURSIVE OpenSubs(_, _)
OpenSubs(subscr, ready) ==
  IF subscr = << >> THEN << >>
  ELSE (IF ready[Head(subscr).ws] # "open" THEN << >>
        ELSE [k \in 1..Len(Head(subscr).subs) |->
                [ws |-> Head(subscr).ws, id |-> Head(subscr).subs[k].id,
                 filters |-> Head(subscr).subs[k].filters]])
       \o OpenSubs(Tail(subscr), ready)

\* relay.mjs _broadcast over these entries: the messages sent, and whether
\* matchFilters threw; nothing is sent after the throw.
RECURSIVE broadcastRun(_, _)
broadcastRun(entries, event) ==
  IF entries = << >> THEN [sent |-> << >>, threw |-> FALSE]
  ELSE LET m == someMatch(event, Head(entries).filters) IN
       IF m = "throw" THEN [sent |-> << >>, threw |-> TRUE]
       ELSE LET rest == broadcastRun(Tail(entries), event) IN
            [sent |-> (IF m = "true"
                         THEN <<Msg(Head(entries).ws, "EVENT", Head(entries).id, event, "")>>
                         ELSE << >>) \o rest.sent,
             threw |-> rest.threw]

\* relay.mjs lines 90-99, the loop over the filters of a REQ: what was sent
\* for the filters before the one whose query throws has been sent.
RECURSIVE snapshotRun(_, _, _, _, _)
snapshotRun(db, evs, ws, subId, filters) ==
  IF filters = << >> THEN [sent |-> << >>, threw |-> FALSE]
  ELSE IF queryThrows(db, evs, Head(filters)) THEN [sent |-> << >>, threw |-> TRUE]
  ELSE LET rest == snapshotRun(db, evs, ws, subId, Tail(filters)) IN
       [sent |-> EventMessages(ws, subId, query(db, evs, AsFilter(Head(filters))))
                   \o rest.sent,
        threw |-> rest.threw]

\* The messages of relay.mjs lines 41-54 and 77-86 that end in a NOTICE.
MalformedMessages ==
  { [form |-> "not JSON", notice |-> "invalid JSON"],
    [form |-> "JSON object", notice |-> "invalid message format"],
    [form |-> "array of one element", notice |-> "invalid message format"],
    [form |-> "REQ with a number as id", notice |-> "invalid subscription ID"],
    [form |-> "REQ without filters", notice |-> "no filters provided"] }

InputFilterLists ==
  { <<FilterP>>, <<EmptyFilter>>, <<NullFilter>>, <<NumberFilter>>,
    <<StringTagFilter>>, <<FilterP, StringTagFilter>>, <<EmptyFilter, NullFilter>> }

InputEvents ==
  { Event(<<"n", "1">>, PK1, 1, 200, << >>, "sig"),
    Event(<<"n", "2">>, PK1, 1, 100, << <<"p", "r1">> >>, "sig") }

\* HTTP requests that are no JSON or lack id, pubkey, kind or sig.
MalformedRequests ==
  { Request(Body("bad", NoEvent), HeadersA),
    Request(Body("json", Event(<< >>, PK1, 1, 100, << >>, "sig")), HeadersA),
    Request(Body("json", Event(<<"a", "1">>, << >>, 1, 100, << >>, "sig")), HeadersA),
    Request(Body("json", Event(<<"a", "1">>, PK1, NullKind, 100, << >>, "sig")), HeadersA),
    Request(Body("json", Event(<<"a", "1">>, PK1, 1, 100, << >>, "")), HeadersA) }

\* What the last callback was called with; threw: an exception left it.
NoInputCall ==
  [name |-> "none", ws |-> "", subId |-> "", filters |-> << >>, form |-> "",
   event |-> NoEvent, added |-> FALSE, threw |-> FALSE]

\* relay.mjs lines 38-39.
InConnect ==
  \E ws \in RelayConns :
    /\ fn = NoCall /\ Idle
    /\ readyState[ws] = "none"
    /\ readyState' = [readyState EXCEPT ![ws] = "open"]
    /\ subscriptions' = Append(subscriptions, [ws |-> ws, subs |-> << >>])
    /\ fn' = [NoInputCall EXCEPT !.name = "connection", !.ws = ws]
    /\ wsSent' = << >>
    /\ UNCHANGED events
    /\ RelayFrame

\* relay.mjs lines 41-54 and 77-86: a message that is answered by a NOTICE.
InMalformed ==
  \E ws \in RelayConns, msg \in MalformedMessages :
    /\ fn = NoCall /\ Idle
    /\ readyState[ws] = "open"
    /\ wsSent' = <<Msg(ws, "NOTICE", "", NoEvent, msg.notice)>>
    /\ fn' = [NoInputCall EXCEPT !.name = "message", !.ws = ws, !.form = msg.form]
    /\ UNCHANGED <<events, relayVars>>
    /\ RelayFrame

\* relay.mjs lines 77-103: a REQ with a string id and one filter at least,
\* whatever the filters are.
InReq ==
  \E ws \in RelayConns, filters \in InputFilterLists :
    LET i == FindWs(subscriptions, ws)
        r == snapshotRun(deploy.db, events, ws, "s1", filters)
    IN /\ fn = NoCall /\ Idle
       /\ readyState[ws] = "open"
       /\ subscriptions' = [subscriptions EXCEPT
                              ![i].subs = SetSub(subscriptions[i].subs, "s1", filters)]
       /\ wsSent' = IF r.threw THEN r.sent
                    ELSE r.sent \o <<Msg(ws, "EOSE", "s1", NoEvent, "")>>
       /\ fn' = [NoInputCall EXCEPT !.name = "REQ", !.ws = ws, !.subId = "s1",
                                    !.filters = filters, !.threw = r.threw]
       /\ UNCHANGED <<events, readyState>>
       /\ RelayFrame

\* relay.mjs lines 134-140: injectEvent, called by the POST handlers with an
\* event that passed their validation.
InInjectEvent ==
  \E event \in InputEvents :
    LET a == add(deploy.db, events, event)
        b == broadcastRun(OpenSubs(subscriptions, readyState), event)
    IN /\ fn = NoCall /\ Idle
       /\ events' = a.events
       /\ wsSent' = IF a.added THEN b.sent ELSE << >>
       /\ fn' = [NoInputCall EXCEPT !.name = "injectEvent", !.event = event,
                                    !.added = a.added,
                                    !.threw = a.added /\ b.threw]
       /\ UNCHANGED relayVars
       /\ RelayFrame

\* index.mjs lines 213-226 and the same lines of the v0.6.0 entry point.
InPost ==
  /\ fn = NoCall
  /\ \E req \in MalformedRequests : PostBegin(req.body, req.headers, 0)

\* The callback has returned.  After an exception that nothing catches
\* there is no process left to return to.
InReturned ==
  /\ fn # NoCall \/ ~Idle
  /\ ~(fn.name # "none" /\ fn.threw)
  /\ fn' = NoCall
  /\ wsSent' = << >>
  /\ UNCHANGED <<events, relayVars>>
  /\ RelayFrame

NextInput ==
  \/ InConnect \/ InMalformed \/ InReq \/ InInjectEvent \/ InPost
  \/ InReturned

SpecInput == InitRelay /\ [][NextInput]_vars

(***************************************************************************)
(* Paid messages and pending payouts.  index.mjs serves POST /api/messages *)
(* with the messages module it imports (lookupPaymentAddress and           *)
(* recordPendingPayout with the arguments recipient, npub, address, id);   *)
(* src/messages.mjs has recordPendingPayout with the arguments recipient,  *)
(* address, amount, id, which the tests call.  `payouts` is the            *)
(* pendingPayouts Map of the module in insertion order.                    *)
(***************************************************************************)
MaxRecorded == 3

RELAY_FEE == 5
TOTAL_PRICE == RELAY_FEE + RECIPIENT_AMOUNT

FindPayout(table, pubkey) ==
  IF \E i \in 1..Len(table) : table[i].pubkey = pubkey
    THEN CHOOSE i \in 1..Len(table) : table[i].pubkey = pubkey ELSE 0

\* A mutant of recordPendingPayout: the address of the last call is kept
\* also when it is null.
recordPendingPayoutLastAddress(table, pubkey, paymentAddress, amount, eventId) ==
  LET i == FindPayout(table, pubkey) IN
  IF i = 0
    THEN Append(table, [pubkey |-> pubkey, amount |-> amount, messages |-> <<eventId>>,
                        paymentAddress |-> paymentAddress])
    ELSE [table EXCEPT ![i] = [pubkey |-> pubkey, amount |-> table[i].amount + amount,
                               messages |-> Append(table[i].messages, eventId),
                               paymentAddress |-> paymentAddress]]

\* src/messages.mjs lines 156-165.
recordPendingPayout(table, pubkey, paymentAddress, amount, eventId) ==
  LET t == IF FindPayout(table, pubkey) = 0
             THEN Append(table, [pubkey |-> pubkey, amount |-> 0, messages |-> << >>,
                                 paymentAddress |-> paymentAddress])
             ELSE table
      i == FindPayout(t, pubkey)
  IN [t EXCEPT ![i] = [pubkey |-> pubkey,
                       amount |-> t[i].amount + amount,
                       messages |-> Append(t[i].messages, eventId),
                       paymentAddress |-> IF paymentAddress # NoAddress
                                            THEN paymentAddress ELSE t[i].paymentAddress]]

\* The messages module of index.mjs, recordPendingPayout: the amount is
\* RECIPIENT_AMOUNT; the npub of the first call stays in the entry.
recordPendingPayoutOfIndex(table, pubkey, paymentAddress, messageId) ==
  recordPendingPayout(table, pubkey, paymentAddress, RECIPIENT_AMOUNT, messageId)

RecipientA == "r1"
RecipientB == "r2"
AddressA == [type |-> "stx", address |-> OTHER_ADDR, source |-> "nostr-profile"]
AddressB == [type |-> "btc", address |-> <<"b", "c">>, source |-> "nostr-profile"]

Recorded(table) ==
  IF table = << >> THEN 0
  ELSE LET S[i \in 0..Len(table)] ==
             IF i = 0 THEN 0 ELSE S[i - 1] + Len(table[i].messages)
       IN S[Len(table)]

\* What the last call of recordPendingPayout was called with.
NoPayoutCall ==
  [name |-> "none", pubkey |-> NoRecipient, paymentAddress |-> NoAddress, amount |-> 0,
   eventId |-> << >>]

\* The server of index.mjs, and the test process that imports the module.
InitMsg ==
  /\ deploy \in {Deployment("index", FALSE, FALSE), Deployment("tests", FALSE, FALSE)}
  /\ usedTxIds = {}
  /\ usedTxDb = {}
  /\ events = << >>
  /\ memory = << >>
  /\ payouts = << >>
  /\ subscriptions = << >>
  /\ readyState = [w \in Conns |-> "none"]
  /\ inflight = EmptyBag
  /\ acceptedHere = {}
  /\ fn = NoCall
  /\ httpReq = NoReq
  /\ httpResp = NoResp
  /\ injected = NoInject
  /\ wsSent = << >>

\* tests/relay.test.mjs lines 341-352: recordPendingPayout called directly.
MsgRecordPendingPayout ==
  \E pubkey \in {RecipientA, RecipientB}, address \in {NoAddress, AddressA, AddressB},
     amount \in {RECIPIENT_AMOUNT, RELAY_FEE}, eventId \in {<<"e", "1">>, <<"e", "2">>} :
    /\ deploy.entry = "tests"
    /\ fn = NoCall /\ Idle
    /\ Recorded(payouts) < MaxRecorded
    /\ payouts' = recordPendingPayout(payouts, pubkey, address, amount, eventId)
    /\ fn' = [NoPayoutCall EXCEPT !.name = "recordPendingPayout", !.pubkey = pubkey,
                                  !.paymentAddress = address, !.amount = amount,
                                  !.eventId = eventId]
    /\ httpReq' = NoReq /\ httpResp' = NoResp /\ injected' = NoInject /\ wsSent' = << >>
    /\ UNCHANGED <<deploy, memory, usedTxIds, usedTxDb, events, relayVars, inflight,
                   acceptedHere>>

\* The body of POST /api/messages: recipientNpub is absent, is no npub, or
\* decodes to a public key (npubToHex); content and event may be absent.
Npub(form, hex) == [form |-> form, hex |-> hex]
npubToHex(npub) == IF npub.form = "valid" THEN npub.hex ELSE NoRecipient

Payload(form, npub, content, event) ==
  [form |-> form, recipientNpub |-> npub, content |-> content, event |-> event]

MessageRequests ==
  { Request(Payload("bad", Npub("absent", NoRecipient), "", NoEvent), NoHeaders),
    Request(Payload("json", Npub("absent", NoRecipient), "hi", NoEvent), HeadersA),
    Request(Payload("json", Npub("valid", RecipientA), "", NoEvent), HeadersA),
    Request(Payload("json", Npub("invalid", NoRecipient), "hi", NoEvent), HeadersA) }
    \cup { Request(Payload("json", Npub("valid", RecipientA), content, event), h) :
             content \in {"hi"}, event \in {NoEvent, EvNote},
             h \in {NoHeaders, HeadersA, HeadersB} }

MessagePending(stage, payload, txId) ==
  [stage |-> stage, payload |-> payload, txId |-> txId, required |-> TOTAL_PRICE]

\* buildMessage402Response.
buildMessage402Response(recipientNpub) ==
  [Response(402, "Payment Required") EXCEPT
     !.price = TOTAL_PRICE, !.maxAmountRequired = ToDecimal(TOTAL_PRICE),
     !.payTo = PAY_TO, !.asset = "sbtc", !.network = "stacks"]

\* index.mjs lines 91-132: up to the await of verifyPayment.
MsgPost ==
  \E req \in MessageRequests :
    LET payload == req.body
        txId == extractPayment(req.headers)
        start == verifyPaymentStart(txId, usedTxIds)
    IN
    /\ deploy.entry = "index"
    /\ fn = NoCall /\ Idle
    /\ httpReq' = Received(payload, req.headers)
    /\ injected' = NoInject
    /\ wsSent' = << >>
    /\ UNCHANGED <<config, usedTxIds, durable, events, relayVars, history>>
    /\ IF payload.form = "bad"
         THEN httpResp' = Response(400, "Invalid JSON") /\ UNCHANGED inflight
       ELSE IF payload.recipientNpub.form = "absent"
         THEN httpResp' = Response(400, "Missing recipientNpub") /\ UNCHANGED inflight
       ELSE IF payload.content = "" /\ payload.event = NoEvent
         THEN httpResp' = Response(400, "Missing content or event") /\ UNCHANGED inflight
       ELSE IF npubToHex(payload.recipientNpub) = NoRecipient
         THEN httpResp' = Response(400, "Invalid npub format") /\ UNCHANGED inflight
       ELSE IF ~Truthy(txId)
         THEN /\ httpResp' = buildMessage402Response(payload.recipientNpub)
              /\ UNCHANGED inflight
       ELSE IF start # Lookup
         THEN /\ httpResp' = [Response(402, "Payment verification failed") EXCEPT
                                !.detail = start, !.txId = txId,
                                !.required = TOTAL_PRICE]
              /\ UNCHANGED inflight
       ELSE /\ BagCardinality(inflight) < MaxInFlight
            /\ Recorded(payouts) + BagCardinality(inflight) < MaxRecorded
            /\ httpResp' = NoResp
            /\ inflight' = inflight (+) SetToBag({MessagePending("fetch", payload, txId)})

\* index.mjs lines 132-145: verifyPayment returned; the handler answers 402
\* or awaits lookupPaymentAddress.
MsgVerifyReturn ==
  \E p \in BagToSet(inflight), outcome \in Outcomes :
    LET res == verifyOutcome(outcome, p.required) IN
    /\ fn = NoCall /\ Idle
    /\ p.stage = "fetch"
    /\ usedTxIds' = usedAfter(usedTxIds, p.txId, res)
    /\ acceptedHere' = IF res.valid THEN acceptedHere \cup {ProofKey(p.txId)}
                       ELSE acceptedHere
    /\ httpReq' = NoReq /\ injected' = NoInject /\ wsSent' = << >>
    /\ UNCHANGED <<config, durable, events, relayVars>>
    /\ IF ~res.valid
         THEN /\ httpResp' = [Response(402, "Payment verification failed") EXCEPT
                                !.detail = res, !.txId = p.txId,
                                !.required = p.required, !.outcome = outcome]
              /\ inflight' = Remove(p)
         ELSE /\ httpResp' = NoResp
              /\ inflight' = Replace(p, [p EXCEPT !.stage = "lookup"])

\* The id of an event the handler builds: `msg-${Date.now()}-${random}`, an
\* id no stored event has.
GeneratedIds == <<"1", "2", "3", "4", "5", "6">>
GeneratedId(evs) == <<"m", GeneratedIds[Len(evs) + 1]>>

\* index.mjs lines 150-163.
BuiltEvent(payload, evs) ==
  IF payload.event # NoEvent THEN payload.event
  ELSE Event(GeneratedId(evs), <<"r", "g">>, 1, 300,
             << <<"p", npubToHex(payload.recipientNpub)>> >>, "relay-generated")

\* index.mjs lines 145-209: lookupPaymentAddress returned an address or
\* null, or threw (NoAddress stands for both); the event is built, injected
\* and the payout recorded.
MsgLookupReturn ==
  \E p \in BagToSet(inflight), paymentAddress \in Addresses :
    LET recipientHex == npubToHex(p.payload.recipientNpub)
        nostrEvent == BuiltEvent(p.payload, events)
        inj == injectEvent(deploy.db, events, subscriptions, readyState, nostrEvent)
    IN
    /\ fn = NoCall /\ Idle
    /\ p.stage = "lookup"
    /\ events' = inj.events
    /\ wsSent' = inj.sent
    /\ injected' = [NoInject EXCEPT !.has = TRUE, !.event = nostrEvent, !.txId = p.txId,
                                    !.required = p.required, !.verification = Valid,
                                    !.added = inj.added]
    /\ payouts' = recordPendingPayoutOfIndex(payouts, recipientHex, paymentAddress,
                                             nostrEvent.id)
    /\ inflight' = Remove(p)
    /\ httpReq' = NoReq
    /\ httpResp' = [Response(200, "") EXCEPT
                      !.detail = Valid, !.event = nostrEvent, !.txId = p.txId,
                      !.required = p.required, !.added = inj.added,
                      !.forwarding = IF paymentAddress # NoAddress THEN "pending"
                                     ELSE "held"]
    /\ UNCHANGED <<config, usedTxIds, usedTxDb, relayVars, history>>

MsgConnect == deploy.entry = "index" /\ fn = NoCall /\ Connect
MsgReq == deploy.entry = "index" /\ fn = NoCall /\ WsReq

MsgReturned ==
  /\ fn # NoCall \/ ~Idle
  /\ fn' = NoCall
  /\ httpReq' = NoReq /\ httpResp' = NoResp /\ injected' = NoInject /\ wsSent' = << >>
  /\ UNCHANGED <<deploy, memory, usedTxIds, durable, events, relayVars, inflight, history>>

NextMsg ==
  \/ MsgRecordPendingPayout
  \/ MsgPost
  \/ MsgVerifyReturn
  \/ MsgLookupReturn
  \/ MsgConnect
  \/ MsgReq
  \/ MsgReturned

SpecMsg == InitMsg /\ [][NextMsg]_vars

(***************************************************************************)
(* Properties of payment verification and replay protection.               *)
(***************************************************************************)

\* C1: within one process no payment proof is accepted twice: of two
\* overlapping verifications of the same normalized identifier, both of
\* whose ledger lookups come back valid, only one is accepted (the other is
\* refused as already used).  An acceptance never concerns an identifier
\* that this process has accepted before.
C1_OneAcceptancePerProof ==
  [][injected'.has => ProofKey(injected'.txId) \notin acceptedHere]_vars

\* The identifiers the durable used_tx_ids table records as consumed.
RecordedKeys == {ProofKey(t) : t \in usedTxDb}

\* C2: an identifier that an earlier process accepted and recorded in the
\* durable store is not accepted again after a restart: no acceptance
\* concerns an identifier that the table records and that this process has
\* not accepted itself.
C2_NeverAcceptedAgain ==
  [][(injected'.has /\ ProofKey(injected'.txId) \notin acceptedHere) =>
       ProofKey(injected'.txId) \notin RecordedKeys]_vars

\* The price of the specification: the table entry of the kind, plus the
\* recipient amount when the event carries a p tag.
TablePrice(kind) ==
  CASE kind = 0 -> 50
    [] kind = 1 -> 10
    [] kind = 4 -> 5
    [] kind = 30023 -> 25
    [] OTHER -> 10

CarriesPTag(event) ==
  \E i \in 1..Len(event.tags) :
    Len(event.tags[i]) >= 2 /\ event.tags[i][1] = "p" /\ event.tags[i][2] # ""

HasNoPTag(event) ==
  \A i \in 1..Len(event.tags) : Len(event.tags[i]) = 0 \/ event.tags[i][1] # "p"

FullPrice(event) == TablePrice(event.kind) + (IF CarriesPTag(event) THEN 100 ELSE 0)

\* C3: every injectEvent call made for POST /api/events follows a
\* verifyPayment that returned valid: true for the same request, with
\* required amount getPrice(event), the surcharge of a p tag included.
C3_InjectAfterFullPrice ==
  injected.has =>
    /\ injected.verification.valid
    /\ injected.required = FullPrice(injected.event)

\* C4: while the process lives, a verification of an identifier that is
\* already in the consumed set, in any case or whitespace variant, is
\* refused with 'Transaction already used' and no ledger lookup is made;
\* an identifier that is not a string or is empty after trimming is refused
\* with 'Missing transaction ID'.
C4_UsedOrMissingRefused ==
  /\ \A p \in BagToSet(inflight) :
       p.stage = "fetch" => ProofKey(p.txId) # << >> /\ ~p.usedAtStart
  /\ (httpResp.status # 0 /\ Truthy(httpResp.txId)) =>
       /\ ProofKey(httpResp.txId) = << >> =>
            /\ httpResp.status = 402
            /\ httpResp.detail = Reject("Missing transaction ID")
            /\ httpResp.outcome = NoOutcome
       /\ httpResp.usedAtStart =>
            /\ httpResp.status = 402
            /\ httpResp.detail = Reject("Transaction already used")
            /\ httpResp.outcome = NoOutcome
  /\ acceptedHere = usedTxIds

C4_Witness ==
  /\ httpResp.usedAtStart
  /\ httpResp.txId = JsString(<<" ", "A">>)
  /\ httpResp.detail = Reject("Transaction already used")
  /\ usedTxIds = {TxA}

\* C5: the consumed set grows only by the identifier of a verification
\* that returned valid: true; a refused verification leaves the in-memory
\* and the durable set as they were (the identifier can be accepted later).
C5_ConsumedOnlyWhenValid ==
  [][/\ (usedTxIds' \ usedTxIds # {}) =>
          /\ injected'.has
          /\ injected'.verification.valid
          /\ usedTxIds' = usedTxIds \cup {ProofKey(injected'.txId)}
     /\ (usedTxDb' # usedTxDb) => injected'.has /\ injected'.verification.valid
     /\ (httpResp'.status = 402 /\ httpResp'.error = "Payment verification failed") =>
          usedTxIds' = usedTxIds /\ usedTxDb' = usedTxDb]_vars

C5_Witness ==
  /\ httpResp.status = 402
  /\ httpResp.detail.error = "Insufficient payment"
  /\ httpResp.txId = JsString(TxA)
  /\ TxA \notin usedTxIds
  /\ usedTxIds # {}

(***************************************************************************)
(* Properties of the rules applied to the ledger record.                   *)
(***************************************************************************)
Verified == fn.name = "verifyPayment" /\ fn.outcome # NoOutcome
HasRecord == Verified /\ fn.outcome.kind = "tx"
Succeeded == HasRecord /\ fn.outcome.tx.tx_status = "success"

\* The emitted events that are fungible-token transfers to the relay.
QualifyingTransfers(tx) ==
  {i \in 1..Len(tx.events) :
     /\ tx.events[i].event_type \in {"fungible_token_transfer", "fungible_token_asset"}
     /\ tx.events[i].asset.asset_event_type = "transfer"
     /\ tx.events[i].asset.recipient = PAY_TO}

FirstQualifying(tx) ==
  CHOOSE i \in QualifyingTransfers(tx) : \A j \in QualifyingTransfers(tx) : i <= j

ParsesNonNegative(value) == BigIntOf(value).ok /\ BigIntOf(value).n >= 0

AtLeast(value, price) == ParsesNonNegative(value) /\ BigIntOf(value).n >= price

SentToRelay(tx) ==
  /\ tx.tx_type = "token_transfer"
  /\ tx.token_transfer.present
  /\ tx.token_transfer.recipient_address = PAY_TO

\* The amount the rules look at: of the transfer, or of the first
\* qualifying transfer event of a contract call.
TransferToRelay(tx) ==
  \/ SentToRelay(tx)
  \/ tx.tx_type = "contract_call" /\ QualifyingTransfers(tx) # {}

AmountOf(tx) ==
  IF tx.tx_type = "token_transfer" THEN tx.token_transfer.amount
  ELSE tx.events[FirstQualifying(tx)].asset.amount

ShouldAccept(tx, price) ==
  /\ tx.tx_status = "success"
  /\ TransferToRelay(tx)
  /\ AtLeast(AmountOf(tx), price)

C7_Status ==
  (HasRecord /\ ~Succeeded) =>
    fn.result = Result(FALSE, "Transaction status", fn.outcome.tx.tx_status, 0, 0)

C7_Recipient ==
  (Succeeded /\ fn.outcome.tx.tx_type = "token_transfer" /\ ~SentToRelay(fn.outcome.tx)) =>
    fn.result = Reject("Payment not sent to relay address")

C7_Amount ==
  (Succeeded /\ TransferToRelay(fn.outcome.tx)) =>
    LET amount == AmountOf(fn.outcome.tx) IN
    /\ ~ParsesNonNegative(amount) => fn.result = Reject("Invalid transfer amount")
    /\ (ParsesNonNegative(amount) /\ ~AtLeast(amount, fn.required)) =>
         fn.result = Result(FALSE, "Insufficient payment", "", BigIntOf(amount).n, fn.required)

C7_UnknownType ==
  (Succeeded /\ fn.outcome.tx.tx_type \notin {"token_transfer", "contract_call"}) =>
    fn.result = Result(FALSE, "Unsupported transaction type", fn.outcome.tx.tx_type, 0, 0)

C7_NoTransfer ==
  (Succeeded /\ fn.outcome.tx.tx_type = "contract_call"
     /\ QualifyingTransfers(fn.outcome.tx) = {}) =>
    fn.result = Reject("No sBTC transfer to relay found in tx")

C10_GetPrice ==
  [][fn'.name = "getPrice" =>
       /\ HasNoPTag(fn'.event) => fn'.price = TablePrice(fn'.event.kind)
       /\ CarriesPTag(fn'.event) => fn'.price = TablePrice(fn'.event.kind) + 100
       /\ UNCHANGED <<usedTxIds, usedTxDb, events, payouts, subscriptions>>]_vars

C10_Witness ==
  /\ fn.name = "getPrice"
  /\ fn.event.kind = 30023
  /\ fn.event.tags = << <<"e", "x">>, <<"p", "r1">> >>
  /\ fn.price = 125

(***************************************************************************)
(* Properties of POST /api/events.                                         *)
(***************************************************************************)

\* C8: an event whose id is already stored, resubmitted with a fresh valid
\* proof, is answered as accepted with added = false; the store is
\* unchanged, nothing is broadcast, and the proof is in the consumed set.
C8_DuplicateConsumesProof ==
  [][/\ (injected'.has /\ injected'.verification.valid
           /\ HasId(events, injected'.event.id)) =>
          /\ ~injected'.added
          /\ events' = events
          /\ wsSent' = << >>
          /\ ProofKey(injected'.txId) \in usedTxIds'
          /\ \/ httpResp'.status = 200 /\ ~httpResp'.added
             \/ /\ httpResp' = NoResp
                /\ \E q \in BagToSet(inflight') :
                     /\ q.stage = "resolve" /\ ~q.added
                     /\ q.event = injected'.event /\ q.txId = injected'.txId
     /\ (httpResp'.status = 200 /\ ~injected'.has) =>
          \E p \in BagToSet(inflight) :
            /\ p.stage \in {"resolve", "forward"}
            /\ p.event = httpResp'.event /\ p.txId = httpResp'.txId
            /\ httpResp'.added = p.added]_vars

C8_Witness ==
  /\ injected.has
  /\ injected.event = EvTagged
  /\ ~injected.added
  /\ httpResp.status = 200 /\ ~httpResp.added
  /\ injected.txId = JsString(TxB)
  /\ usedTxIds = {TxA, TxB}
  /\ Len(events) = 1
  /\ \E i \in 1..Len(subscriptions) : subscriptions[i].subs # << >>
  /\ wsSent = << >>

WellFormed(body) ==
  /\ body.form = "json"
  /\ body.event.id # << >> /\ body.event.pubkey # << >>
  /\ body.event.kind # NullKind /\ body.event.sig # ""

\* C9: a request with a well-formed event and no proof token is answered
\* with status 402 carrying the price getPrice(event), PAY_TO and the asset
\* and network identifiers; the store, the consumed sets and the
\* subscriptions are unchanged.
C9_PaymentRequired ==
  [][(httpReq'.has /\ WellFormed(httpReq'.body) /\ httpReq'.headers = NoHeaders) =>
       /\ httpResp'.status = 402
       /\ httpResp'.error = "Payment Required"
       /\ httpResp'.event = httpReq'.body.event
       /\ httpResp'.price = getPrice(httpReq'.body.event)
       /\ httpResp'.maxAmountRequired = ToDecimal(getPrice(httpReq'.body.event))
       /\ httpResp'.payTo = PAY_TO
       /\ httpResp'.asset = "sbtc"
       /\ httpResp'.network = "stacks"
       /\ UNCHANGED <<events, usedTxIds, usedTxDb, subscriptions>>]_vars

C9_Witness ==
  /\ httpReq.has /\ httpReq.headers = NoHeaders /\ httpReq.body.event = EvTagged
  /\ httpResp.status = 402
  /\ httpResp.price = 110
  /\ httpResp.maxAmountRequired = <<"1", "1", "0">>
  /\ events # << >>
  /\ usedTxIds # {}
  /\ subscriptions # << >>

(***************************************************************************)
(* Claims about the event store, checked under SpecStore on both stores.   *)
(***************************************************************************)
IsRegular(kind) == ~IsReplaceable(kind) /\ ~IsParameterized(kind) /\ ~IsEphemeral(kind)

IdsDistinct(evs) ==
  \A i, j \in 1..Len(evs) : i # j => evs[i].id # evs[j].id

\* What the claim requires of one add call on one store: evs before, evs2
\* after, with the value add returned.
DuplicateRule(evs, evs2, event, added) ==
  /\ HasId(evs, event.id) => ~added /\ evs2 = evs
  /\ (IsRegular(event.kind) /\ ~HasId(evs, event.id)) =>
        /\ added
        /\ Len(evs2) = Len(evs) + 1
        /\ HasId(evs2, event.id)
  /\ IdsDistinct(evs2)

\* C11: adding an event whose id is already stored returns false and leaves
\* the store unchanged; adding a regular event whose id is not stored returns
\* true and grows the store by exactly one (so that a second add of it
\* returns false and the size has grown by one over the two calls); the ids
\* of the stored events are pairwise distinct.
C11_DuplicateRejected ==
  [][fn'.name = "injectEvent" =>
       /\ DuplicateRule(events, events', fn'.event, fn'.added)
       /\ DuplicateRule(memory, memory', fn'.event, fn'.addedMem)]_vars

\* The second add of a stored regular event has returned false on both stores.
C11_Witness ==
  /\ fn.name = "injectEvent"
  /\ IsRegular(fn.event.kind)
  /\ ~fn.added /\ ~fn.addedMem
  /\ \E i \in 1..Len(events) : events[i] = fn.event
  /\ \E i \in 1..Len(memory) : memory[i] = fn.event

\* Two stored events have the same key: the same pubkey and replaceable
\* kind, and for a parameterized kind the same d value (a missing d is '').
SameReplaceableKey(a, b) ==
  /\ a.pubkey = b.pubkey
  /\ a.kind = b.kind
  /\ \/ IsReplaceable(a.kind)
     \/ IsParameterized(a.kind) /\ dTagOf(a) = dTagOf(b)

AtMostOnePerKey(evs) ==
  \A i, j \in 1..Len(evs) : i # j => ~SameReplaceableKey(evs[i], evs[j])

\* C12: after any sequence of add calls the store holds at most one event
\* per (pubkey, kind) of a replaceable kind and at most one per (pubkey,
\* kind, d value) of a parameterized-replaceable kind.
C12_AtMostOnePerKey == AtMostOnePerKey(events) /\ AtMostOnePerKey(memory)

\* Both classes are stored and the last add was refused for its key.
C12_Witness ==
  /\ fn.name = "injectEvent"
  /\ IsParameterized(fn.event.kind)
  /\ ~fn.added /\ ~fn.addedMem
  /\ ~HasId(events, fn.event.id)
  /\ \E i \in 1..Len(events) : SameReplaceableKey(events[i], fn.event)
  /\ \E i \in 1..Len(memory) : IsReplaceable(memory[i].kind)
  /\ \E i \in 1..Len(events) : IsReplaceable(events[i].kind)

\* The stored events that have the (pubkey, kind) of the event.
SameAuthorKind(evs, event) ==
  {i \in 1..Len(evs) : evs[i].pubkey = event.pubkey /\ evs[i].kind = event.kind}

\* One more replaceable event with a new id arrives at a store that holds
\* the survivor of the earlier ones: one event of the key is left, the old
\* one when it is at least as recent, the new one otherwise.
ConvergeRule(evs, evs2, event, added) ==
  (IsReplaceable(event.kind) /\ ~HasId(evs, event.id)) =>
    /\ Cardinality(SameAuthorKind(evs2, event)) = 1
    /\ \A i \in SameAuthorKind(evs2, event) :
         /\ evs2[i].created_at >= event.created_at
         /\ \A j \in SameAuthorKind(evs, event) :
              /\ evs2[i].created_at >= evs[j].created_at
              /\ evs[j].created_at >= event.created_at => evs2[i] = evs[j]
         /\ (\A j \in SameAuthorKind(evs, event) :
                evs[j].created_at < event.created_at) => evs2[i] = event

\* C13: replaceable events of one (pubkey, kind) with distinct ids, added in
\* any order, leave exactly one stored event, the one with the greatest
\* created_at, and among those of equal greatest created_at the first that
\* arrived (stated for each arrival, the store having started empty).
C13_NewestSurvives ==
  [][fn'.name = "injectEvent" =>
       /\ ConvergeRule(events, events', fn'.event, fn'.added)
       /\ ConvergeRule(memory, memory', fn'.event, fn'.addedMem)]_vars

\* created_at 200 has arrived, then another 200: the first one is the event
\* stored; 100 and the second 200 are not.
C13_Witness ==
  /\ fn.name = "injectEvent"
  /\ fn.event.kind = 0 /\ fn.event.pubkey = PK1 /\ fn.event.created_at = 200
  /\ ~fn.added /\ ~fn.addedMem
  /\ ~HasId(events, fn.event.id) /\ ~HasId(memory, fn.event.id)
  /\ \E i \in 1..Len(events) :
       events[i].kind = 0 /\ events[i].pubkey = PK1 /\ events[i].created_at = 200
  /\ \E i \in 1..Len(memory) :
       memory[i].kind = 0 /\ memory[i].pubkey = PK1 /\ memory[i].created_at = 200

\* An event arrives that is not newer than the stored event of its key.
RefusedRule(evs, evs2, event, added) ==
  (\E i \in 1..Len(evs) :
      SameReplaceableKey(evs[i], event) /\ event.created_at <= evs[i].created_at) =>
    ~added /\ evs2 = evs

\* C14: adding a replaceable or parameterized-replaceable event whose
\* created_at is less than or equal to that of the stored event with the
\* same key returns false and leaves the whole store unchanged.
C14_OlderRefused ==
  [][fn'.name = "injectEvent" =>
       /\ RefusedRule(events, events', fn'.event, fn'.added)
       /\ RefusedRule(memory, memory', fn'.event, fn'.addedMem)]_vars

\* A parameterized event with a d tag that has no value arrives after the
\* newer one that has no d tag, next to two other stored events.
C14_Witness ==
  /\ fn.name = "injectEvent"
  /\ IsParameterized(fn.event.kind) /\ fn.event.tags = << <<"d">> >>
  /\ ~fn.added /\ ~fn.addedMem
  /\ Len(events) = 3 /\ Len(memory) = 3
  /\ \E i \in 1..Len(events) :
       SameReplaceableKey(events[i], fn.event) /\ events[i].created_at > fn.event.created_at

InStore(evs, event) == \E i \in 1..Len(evs) : evs[i] = event

\* A parameterized-replaceable event with a new id arrives: the stored
\* events of another d value stay, and of its own d value the one with the
\* greater created_at is left.
ParameterizedRule(evs, evs2, event, added) ==
  (IsParameterized(event.kind) /\ ~HasId(evs, event.id)) =>
    LET same == {i \in 1..Len(evs) : SameReplaceableKey(evs[i], event)} IN
    /\ \A i \in 1..Len(evs) : i \notin same => InStore(evs2, evs[i])
    /\ same = {} => added /\ InStore(evs2, event)
    /\ \A i \in same :
         IF evs[i].created_at >= event.created_at
           THEN ~added /\ InStore(evs2, evs[i]) /\ ~InStore(evs2, event)
           ELSE added /\ InStore(evs2, event) /\ ~InStore(evs2, evs[i])

\* C15: parameterized-replaceable events of one pubkey and kind with
\* different d values are both stored and neither replaces the other; of
\* those with the same d value only the one with the greater created_at
\* remains.
C15_IsolatedByDTag ==
  [][fn'.name = "injectEvent" =>
       /\ ParameterizedRule(events, events', fn'.event, fn'.added)
       /\ ParameterizedRule(memory, memory', fn'.event, fn'.addedMem)]_vars

\* The newer event with d = 'x' has been added next to the stored event with
\* d = 'y': both are stored, on both stores.
C15_Witness ==
  /\ fn.name = "injectEvent"
  /\ fn.event.tags = << <<"d", "x">> >> /\ fn.event.created_at = 200
  /\ fn.added /\ fn.addedMem
  /\ Len(events) = 2 /\ Len(memory) = 2
  /\ \A i \in 1..2 : IsParameterized(events[i].kind) /\ IsParameterized(memory[i].kind)
  /\ events[1].tags = << <<"d", "y">> >> /\ memory[1].tags = << <<"d", "y">> >>
  /\ events[2] = fn.event /\ memory[2] = fn.event

EphemeralKind(kind) == kind \in 20000..29999

NoEphemeral(evs) == \A i \in 1..Len(evs) : ~EphemeralKind(evs[i].kind)

\* C16: in every reachable state no event with a kind in 20000-29999 is in
\* the store, and no query result contains such an event.
C16_EphemeralNeverStored ==
  /\ NoEphemeral(events) /\ NoEphemeral(memory)
  /\ fn.name = "query" => NoEphemeral(fn.rows) /\ NoEphemeral(fn.rowsMem)

\* An ephemeral event has been admitted by stores that hold two other
\* events, and a query for the ephemeral kinds would return nothing.
C16_Witness ==
  /\ fn.name = "injectEvent" /\ EphemeralKind(fn.event.kind)
  /\ fn.added /\ fn.addedMem
  /\ Len(events) = 2 /\ Len(memory) = 2
  /\ query(TRUE, events, [EmptyFilter EXCEPT !.kinds = Present(<<20000, 29999>>)]) = << >>
  /\ query(FALSE, memory, [EmptyFilter EXCEPT !.kinds = Present(<<20000, 29999>>)]) = << >>

\* The open connections' subscriptions that match the event.
OpenMatching(event) ==
  {<<subscriptions[c].ws, subscriptions[c].subs[k].id>> :
     <<c, k>> \in {ck \in (1..Len(subscriptions)) \X (1..2) :
        /\ ck[2] <= Len(subscriptions[ck[1]].subs)
        /\ readyState[subscriptions[ck[1]].ws] = "open"
        /\ matchFilters(event, subscriptions[ck[1]].subs[ck[2]].filters)}}

\* One EVENT message with the event for each of them, and no other message.
SentToEach(sent, event) ==
  /\ Len(sent) = Cardinality(OpenMatching(event))
  /\ \A p \in OpenMatching(event) :
       \E i \in 1..Len(sent) :
         /\ sent[i].ws = p[1] /\ sent[i].subId = p[2]
         /\ sent[i].type = "EVENT" /\ sent[i].event = event

Matching(evs, filter) == {i \in 1..Len(evs) : matchFilter(evs[i], filter)}

\* What a query has to return from a store: the matching events, newest
\* first, and with a limit n > 0 the first n of them.  Events of equal
\* created_at may come in either order.  Nothing is required of the length
\* when the limit is 0.
QueryRule(evs, filter, rows) ==
  LET n == Cardinality(Matching(evs, filter))
      limited == filter.limit.has /\ filter.limit.v > 0
  IN /\ \A k \in 1..Len(rows) : \E i \in Matching(evs, filter) : rows[k] = evs[i]
     /\ \A k, l \in 1..Len(rows) : k < l =>
          rows[k].created_at >= rows[l].created_at /\ rows[k] # rows[l]
     /\ (limited /\ filter.limit.v < n) =>
          /\ Len(rows) = filter.limit.v
          /\ \A i \in Matching(evs, filter) :
               InStore(rows, evs[i]) \/
                 \A k \in 1..Len(rows) : rows[k].created_at >= evs[i].created_at
     /\ ((limited /\ filter.limit.v >= n) \/ ~filter.limit.has) => Len(rows) = n

\* C18: query(filter) returns exactly the stored events that match the
\* filter, ordered by created_at descending, and with limit = n the first n
\* events of that order.
C18_QueryExact ==
  fn.name = "query" =>
    /\ QueryRule(events, fn.filter, fn.rows)
    /\ QueryRule(memory, fn.filter, fn.rowsMem)

\* The same for the Map store alone.
QueryExactMemory == fn.name = "query" => QueryRule(memory, fn.filter, fn.rowsMem)

LengthRule(filter, length) ==
  IF filter.limit.has THEN length <= filter.limit.v ELSE length <= 5000

\* C19: for every store content and every filter, the length of the query
\* result is at most filter.limit whenever limit is set, and at most 5000
\* when limit is not set.
C19_LengthBounded ==
  fn.name \in {"query", "queryLarge"} =>
    LengthRule(fn.filter, fn.length) /\ LengthRule(fn.filter, fn.lengthMem)

\* The same for a limit that is set to a positive number, and for the SQLite
\* store without a limit.
LengthBoundedPositive ==
  fn.name \in {"query", "queryLarge"} =>
    /\ (fn.filter.limit.has /\ fn.filter.limit.v > 0) =>
          fn.length <= fn.filter.limit.v /\ fn.lengthMem <= fn.filter.limit.v
    /\ ~fn.filter.limit.has => fn.length <= 5000

\* The length computed from the number of matching events is the length of
\* the sequence query returns, on the stores the model enumerates.
QueryLengthAgrees ==
  (fn.name = "query" /\ DOMAIN fn.filter.tags = {}) =>
    /\ fn.length = queryLength(TRUE, fn.matching, fn.filter)
    /\ fn.lengthMem = queryLength(FALSE, fn.matching, fn.filter)

\* The Map store has returned 5001 events to a filter without a limit.
MemoryUncapped ==
  fn.name = "queryLarge" /\ ~fn.filter.limit.has /\ fn.lengthMem = 5001

\* A limit of 0 has been answered with an event.
LimitZeroIgnored ==
  fn.name = "query" /\ fn.filter.limit.has /\ fn.filter.limit.v = 0 /\ fn.length > 0

\* C20: the SQLite store and the Map store are observationally identical:
\* after the same sequence of add calls they have returned the same add
\* results, have the same size, and return the same sequence to every query,
\* also to a filter that combines a tag field with a limit.
C20_BackendsIdentical ==
  /\ fn.name = "injectEvent" => fn.added = fn.addedMem
  /\ Len(events) = Len(memory)
  /\ fn.name = "query" => fn.rows = fn.rowsMem

\* The part of it that is about add: the same results, the same messages to
\* the subscribers and the same stored sequence.
AddsIdentical ==
  /\ fn.name = "injectEvent" => fn.added = fn.addedMem /\ wsSent = fn.sentMem
  /\ events = memory

\* The part of it that is about the queries that do not combine a tag field
\* with a limit, on the stores the model enumerates.
QueriesWithoutTagLimitIdentical ==
  (fn.name = "query" /\ (DOMAIN fn.filter.tags = {} \/ ~fn.filter.limit.has)) =>
    fn.rows = fn.rowsMem

(***************************************************************************)
(* Claims about matchFilter and the subscriptions.                         *)
(***************************************************************************)
IsPrefix(p, str) == Len(p) <= Len(str) /\ \A i \in 1..Len(p) : p[i] = str[i]

\* A list field counts as present when it has a value (an empty list, which
\* restricts nothing, is the subject of C38).
Listed(field) == field.has /\ Len(field.v) > 0

\* The predicate of each field that is present, OR within the field.
FieldsAgree(event, filter) ==
  /\ Listed(filter.ids) =>
       \E i \in 1..Len(filter.ids.v) : IsPrefix(filter.ids.v[i], event.id)
  /\ Listed(filter.authors) =>
       \E i \in 1..Len(filter.authors.v) : IsPrefix(filter.authors.v[i], event.pubkey)
  /\ Listed(filter.kinds) =>
       \E i \in 1..Len(filter.kinds.v) : filter.kinds.v[i] = event.kind
  /\ filter.since.has => event.created_at >= filter.since.v
  /\ filter.until.has => event.created_at <= filter.until.v
  /\ \A name \in DOMAIN filter.tags :
       Len(filter.tags[name]) > 0 =>
         \E i \in 1..Len(filter.tags[name]), t \in 1..Len(event.tags) :
           /\ Len(event.tags[t]) >= 2
           /\ event.tags[t][1] = name
           /\ event.tags[t][2] = filter.tags[name][i]

\* C21: matchFilter(E, F) is the AND of the predicates of the fields present
\* in F (ids and authors by prefix, kinds by value, since and until
\* inclusive, '#x' by tag value, OR within a field); the filter with no
\* field matches every event; matchFilters is the OR of matchFilter over the
\* list, and the empty list matches nothing.
C21_MatchFilter ==
  /\ fn.name = "matchFilter" =>
       /\ fn.matched = FieldsAgree(fn.event, fn.filter)
       /\ fn.filter = EmptyFilter => fn.matched
  /\ fn.name = "matchFilters" =>
       /\ fn.matched = (\E i \in 1..Len(fn.filters) : FieldsAgree(fn.event, fn.filters[i]))
       /\ fn.filters = << >> => ~fn.matched

\* Every field is present and the event passes each of them, on the bounds
\* since = until = created_at.
C21_Witness ==
  /\ fn.name = "matchFilter"
  /\ fn.matched
  /\ Listed(fn.filter.ids) /\ Listed(fn.filter.authors) /\ Listed(fn.filter.kinds)
  /\ fn.filter.since.has /\ fn.filter.until.has
  /\ fn.filter.since.v = fn.event.created_at /\ fn.filter.until.v = fn.event.created_at
  /\ DOMAIN fn.filter.tags = {"e", "p"}

(***************************************************************************)
(* The subscription transport (relay specification).                       *)
(***************************************************************************)
PaymentRequiredText == "payment-required: publish via HTTP POST /api/events"

Registered(subscr) ==
  UNION {{<<subscr[c].ws, subscr[c].subs[k].id, subscr[c].subs[k].filters>> :
            k \in 1..Len(subscr[c].subs)} : c \in 1..Len(subscr)}

\* C23: a REQ with a subscription id that exists on the connection replaces
\* its filter list; the same id on other connections and other ids on the
\* same connection are unchanged; an event is delivered under an id only
\* when it matches the filters the id has now.
C23_ReqReplaces ==
  [][/\ fn'.name = "REQ" =>
          Registered(subscriptions') =
            {t \in Registered(subscriptions) : ~(t[1] = fn'.ws /\ t[2] = fn'.subId)}
              \cup {<<fn'.ws, fn'.subId, fn'.filters>>}
     /\ fn'.name = "injectEvent" =>
          \A i \in 1..Len(wsSent') :
            \E t \in Registered(subscriptions') :
              /\ t[1] = wsSent'[i].ws /\ t[2] = wsSent'[i].subId
              /\ \E j \in 1..Len(t[3]) : matchFilter(fn'.event, t[3][j])]_vars

\* The REQ of w1 for s1 has replaced the list with the p filter by the list
\* with the empty filter, while w1 has s2 and w2 has s1 with the p filter.
C23_Witness ==
  /\ fn.name = "REQ" /\ fn.ws = "w1" /\ fn.subId = "s1"
  /\ fn.old = <<FilterP>> /\ fn.filters = FilterAll
  /\ Registered(subscriptions) =
       {<<"w1", "s1", FilterAll>>, <<"w1", "s2", <<FilterP>> >>,
        <<"w2", "s1", <<FilterP>> >>}

\* The stored events that match one filter of the list at least.
ListMatching(evs, filters) ==
  {i \in 1..Len(evs) : \E j \in 1..Len(filters) : matchFilter(evs[i], filters[j])}

\* What the claim requires of the messages a REQ is answered with: one
\* EVENT per matching stored event, newest first, then one EOSE.
SnapshotRule(evs, sent, ws, subId, filters) ==
  LET m == ListMatching(evs, filters)
      n == Len(sent)
  IN /\ n = Cardinality(m) + 1
     /\ sent[n].type = "EOSE" /\ sent[n].ws = ws /\ sent[n].subId = subId
     /\ \A k \in 1..(n - 1) :
          sent[k].type = "EVENT" /\ sent[k].ws = ws /\ sent[k].subId = subId
     /\ \A i \in m : \E k \in 1..(n - 1) : sent[k].event = evs[i]
     /\ \A k \in 1..(n - 2) :
          sent[k].event.created_at >= sent[k + 1].event.created_at

\* C24: on a valid REQ with one or more filters the connection receives
\* exactly one EVENT message per stored event that matches the filter list,
\* in created_at-descending order, followed by exactly one EOSE for the
\* subscription id; no live event for the id comes before the EOSE.
C24_SnapshotThenEose ==
  [][fn'.name = "REQ" =>
       SnapshotRule(events, wsSent', fn'.ws, fn'.subId, fn'.filters)]_vars

\* The same requirement for the REQs that carry one filter.
SnapshotOfOneFilter ==
  [][(fn'.name = "REQ" /\ Len(fn'.filters) = 1) =>
       SnapshotRule(events, wsSent', fn'.ws, fn'.subId, fn'.filters)]_vars

Pairs(subscr) == {<<t[1], t[2]>> : t \in Registered(subscr)}

\* C25: CLOSE removes the subscription and only it, and CLOSE of an absent
\* id changes nothing; the close of a connection removes all its
\* subscriptions; no callback but REQ registers a subscription; a published
\* event is sent only under the (connection, id) pairs registered at that
\* moment, so none is delivered under a closed id or to a closed connection.
C25_CloseStopsDelivery ==
  [][/\ fn'.name = "CLOSE" =>
          /\ Registered(subscriptions') =
               {t \in Registered(subscriptions) :
                  ~(t[1] = fn'.ws /\ t[2] = fn'.subId)}
          /\ fn'.old = << >> =>
               /\ subscriptions' = subscriptions /\ readyState' = readyState
               /\ events' = events /\ wsSent' = << >>
     /\ fn'.name = "close" =>
          /\ Registered(subscriptions') =
               {t \in Registered(subscriptions) : t[1] # fn'.ws}
          /\ readyState'[fn'.ws] # "open"
     /\ fn'.name # "REQ" => Pairs(subscriptions') \subseteq Pairs(subscriptions)
     /\ fn'.name = "injectEvent" =>
          \A i \in 1..Len(wsSent') :
            /\ <<wsSent'[i].ws, wsSent'[i].subId>> \in Pairs(subscriptions)
            /\ readyState[wsSent'[i].ws] = "open"]_vars

\* The CLOSE of w1 for s1 has removed a subscription that existed; s2 of w1
\* and s1 of w2 are still registered.
C25_Witness ==
  /\ fn.name = "CLOSE" /\ fn.ws = "w1" /\ fn.subId = "s1" /\ fn.old # << >>
  /\ Pairs(subscriptions) = {<<"w1", "s2">>, <<"w2", "s1">>}

\* A CLOSE for an id the connection does not have.
CloseAbsentReached ==
  /\ fn.name = "CLOSE" /\ fn.old = << >> /\ Pairs(subscriptions) # {}

\* C26: publishing an admitted event sends exactly one EVENT message to
\* every (open connection, subscription id) whose filter list matches it and
\* none to any other; a connection that is not open is skipped, and the
\* event is not sent later: no callback but injectEvent and REQ sends an
\* EVENT message, and a REQ sends stored events only.
C26_BroadcastToOpenMatching ==
  [][/\ (fn'.name = "injectEvent" /\ fn'.added) => SentToEach(wsSent', fn'.event)
     /\ fn'.name \notin {"injectEvent", "REQ"} =>
          \A i \in 1..Len(wsSent') : wsSent'[i].type # "EVENT"
     /\ fn'.name = "REQ" =>
          \A i \in 1..Len(wsSent') :
            wsSent'[i].type = "EVENT" => InStore(events, wsSent'[i].event)]_vars

\* The kind-1 event tagged p = r1 has been admitted while w2, which has a
\* subscription with the p filter, is closing, and w1 is open with a
\* two subscriptions that match: the two
\* messages go to w1.
C26_Witness ==
  /\ fn.name = "injectEvent" /\ fn.added /\ fn.event.id = <<"n", "2">>
  /\ readyState["w1"] = "open" /\ readyState["w2"] = "closing"
  /\ Registered(subscriptions) =
       {<<"w1", "s1", FilterAll>>, <<"w1", "s2", <<FilterP>> >>,
        <<"w2", "s1", <<FilterP>> >>}
  /\ Len(wsSent) = 2 /\ \A i \in 1..2 : wsSent[i].ws = "w1"

\* A stored event of the author and kind that is at least as recent.
StaleFor(evs, event) ==
  /\ event.kind = 0
  /\ \E i \in 1..Len(evs) :
       /\ evs[i].pubkey = event.pubkey /\ evs[i].kind = event.kind
       /\ evs[i].created_at >= event.created_at

\* C27: an event is broadcast if and only if add returned true for it: an
\* event rejected as a duplicate or as a stale replacement is not sent to
\* anyone, an admitted one is sent to the open matching subscriptions, and
\* every broadcast event that is not ephemeral is in the store when it is
\* broadcast.
C27_BroadcastIffAdded ==
  [][fn'.name = "injectEvent" =>
       /\ ~fn'.added => wsSent' = << >>
       /\ fn'.added => Len(wsSent') = Cardinality(OpenMatching(fn'.event))
       /\ (InStore(events, fn'.event) \/ StaleFor(events, fn'.event)) =>
            ~fn'.added /\ wsSent' = << >> /\ events' = events
       /\ (wsSent' # << >> /\ ~EphemeralKind(fn'.event.kind)) =>
            InStore(events', fn'.event)]_vars

\* The older kind-0 event has been refused while the newer one is stored
\* and an open subscription matches it: nothing has been sent.
C27_Witness ==
  /\ fn.name = "injectEvent" /\ ~fn.added /\ fn.event.id = <<"r", "1">>
  /\ \E i \in 1..Len(events) : events[i].id = <<"r", "2">>
  /\ OpenMatching(fn.event) # {}
  /\ wsSent = << >>

\* What the claim requires of one add call that finds a stored event of the
\* key of the new event: in the store after the call a reader finds the old
\* event or the new one, and not both and not neither of them.
ReplaceAtomicRule(evs, evs2, event) ==
  \A i \in 1..Len(evs) :
    (SameReplaceableKey(evs[i], event) /\ evs[i].id # event.id) =>
      InStore(evs2, evs[i]) # InStore(evs2, event)

\* C28: replacing a replaceable event is atomic for readers: after a call
\* of add, also one in which the INSERT of the new event fails after the
\* DELETE of the old one, the store holds either the old or the new event
\* of the key, never both and never neither.
C28_ReplaceAtomic ==
  [][fn'.name \in {"injectEvent", "injectEventThrew"} =>
       ReplaceAtomicRule(events, events', fn'.event)]_vars

\* The same requirement for the calls in which no statement fails, on
\* the SQLite store and on the Map store.
ReplaceAtomicWithoutFailure ==
  [][fn'.name = "injectEvent" =>
       ReplaceAtomicRule(events, events', fn'.event)]_vars

(***************************************************************************)
(* The ledger lookup.                                                      *)
(***************************************************************************)
\* A handler is suspended in verifyPayment at the await of the lookup.
AwaitingLedger == \E p \in BagToSet(inflight) : p.stage = "fetch"

\* C29: a write attempt that carries a proof always eventually receives a
\* response: a handler that waits for the ledger lookup eventually stops
\* waiting, whether the ledger API answers or not.
C29_LookupEventuallyEnds == AwaitingLedger ~> ~AwaitingLedger

\* The lookup did not deliver a transaction record: a network error, a
\* status that is not 2xx, a body that is no JSON or has not the fields.
LookupFailed(outcome) ==
  \/ outcome.kind \in {"neterr", "notok", "badbody"}
  \/ outcome.kind = "tx" /\ outcome.tx = NoTx

\* C30: when the ledger lookup fails (network error, non-200 response, body
\* that is not the expected record) verifyPayment returns valid = false
\* with a reason, the handler answers 402, the proof is not consumed and the
\* event is neither stored nor broadcast.
C30_LookupFailureRejects ==
  [][LookupFailed(httpResp'.outcome) =>
       /\ httpResp'.status = 402
       /\ ~httpResp'.detail.valid
       /\ httpResp'.detail.error \in
            {"Verification failed", "Transaction not found", "Transaction status"}
       /\ usedTxIds' = usedTxIds /\ usedTxDb' = usedTxDb
       /\ acceptedHere' = acceptedHere
       /\ events' = events
       /\ injected' = NoInject
       /\ wsSent' = << >>
       /\ \A p \in BagToSet(inflight') : p \in BagToSet(inflight)]_vars

\* The lookup for an event that an open subscription matches has ended with
\* a status that is not 2xx: the answer is 402 and the identifier is not in
\* the consumed set.
C30_Witness ==
  /\ httpResp.status = 402 /\ httpResp.outcome.kind = "notok"
  /\ OpenMatching(httpResp.event) # {}
  /\ ~InStore(events, httpResp.event)
  /\ normalizeTxId(httpResp.txId) \notin usedTxIds
  /\ wsSent = << >>

(***************************************************************************)
(* Input from the network (input specification).                           *)
(***************************************************************************)
MissingField(event) ==
  event.id = << >> \/ event.pubkey = << >> \/ event.kind = NullKind \/ event.sig = ""

\* The answer to a malformed HTTP body is a 400 and nothing else happens.
BadBodyRule ==
  [][(httpReq'.has /\ (httpReq'.body.form = "bad" \/ MissingField(httpReq'.body.event))) =>
       /\ httpResp'.status = 400
       /\ events' = events /\ usedTxIds' = usedTxIds /\ usedTxDb' = usedTxDb
       /\ subscriptions' = subscriptions /\ inflight' = inflight
       /\ wsSent' = << >>]_vars

OneNotice(sent, ws) ==
  Len(sent) = 1 /\ sent[1].type = "NOTICE" /\ sent[1].ws = ws /\ sent[1].text # ""

\* The answer to a malformed WebSocket message is one NOTICE to its sender
\* and nothing else happens.
BadMessageRule ==
  [][fn'.name = "message" =>
       /\ OneNotice(wsSent', fn'.ws)
       /\ subscriptions' = subscriptions /\ events' = events]_vars

NotAnObject(filter) == filter \in {NullFilter, NumberFilter}

\* C31: malformed input is rejected with a notice and changes nothing: an
\* HTTP body that is no JSON or an event without id, pubkey, kind or sig
\* gets a 400; a WebSocket message that is no JSON, no array of two
\* elements, a REQ with a non-string id, without filters or with a filter
\* that is not an object gets a NOTICE and registers no subscription.
C31_MalformedRejected ==
  [][/\ (httpReq'.has /\ (httpReq'.body.form = "bad" \/ MissingField(httpReq'.body.event))) =>
          /\ httpResp'.status = 400
          /\ events' = events /\ subscriptions' = subscriptions
     /\ fn'.name = "message" =>
          /\ OneNotice(wsSent', fn'.ws)
          /\ subscriptions' = subscriptions /\ events' = events
     /\ (fn'.name = "REQ" /\ \E k \in 1..Len(fn'.filters) : NotAnObject(fn'.filters[k])) =>
          /\ OneNotice(wsSent', fn'.ws)
          /\ subscriptions' = subscriptions /\ events' = events]_vars

ProperFilter(filter) == filter \notin {NullFilter, NumberFilter, StringTagFilter}

\* The subscriptions of open connections whose filters are all proper and
\* of which one matches the event.
ProperMatching(event) ==
  {t \in Registered(subscriptions) :
     /\ readyState[t[1]] = "open"
     /\ \A k \in 1..Len(t[3]) : ProperFilter(t[3][k])
     /\ \E k \in 1..Len(t[3]) : matchFilter(event, t[3][k])}

Delivered(sent, ws, subId, event) ==
  \E i \in 1..Len(sent) :
    sent[i].type = "EVENT" /\ sent[i].ws = ws /\ sent[i].subId = subId
      /\ sent[i].event = event

\* C32: no input from the network makes a callback of the relay end with an
\* exception: the snapshot of a REQ and the broadcast of an admitted event
\* run to their end whatever filters were registered, and an admitted event
\* reaches every open subscription that matches it, whatever the filters of
\* other clients are.
C32_NoUncaughtException ==
  /\ fn.name # "none" => ~fn.threw
  /\ (fn.name = "injectEvent" /\ fn.added) =>
       \A t \in ProperMatching(fn.event) : Delivered(wsSent, t[1], t[2], fn.event)

\* An event has been admitted and stored, and the subscription of w2, which
\* matches it, has received nothing: the filter { "#p": "ab" } that w1
\* registered before made matchFilter throw.
DeliveryPrevented ==
  /\ fn.name = "injectEvent" /\ fn.added /\ fn.threw
  /\ InStore(events, fn.event)
  /\ <<"w2", "s1", <<EmptyFilter>> >> \in ProperMatching(fn.event)
  /\ <<"w1", "s1", <<StringTagFilter>> >> \in Registered(subscriptions)
  /\ wsSent = << >>

\* The same requirement while every filter of the REQ and every registered
\* filter is an object with lists in its fields.
NoExceptionWithProperFilters ==
  (/\ \A t \in Registered(subscriptions) : \A k \in 1..Len(t[3]) : ProperFilter(t[3][k])
   /\ fn.name = "REQ" => \A k \in 1..Len(fn.filters) : ProperFilter(fn.filters[k]))
    => C32_NoUncaughtException

(***************************************************************************)
(* Properties of payout routing.                                           *)
(***************************************************************************)

\* A handler that starts to wait for the payment address of a recipient
\* in this step.
StartsLookup(p) ==
  /\ p.stage \in {"lookup", "resolve"}
  /\ CopiesIn(p, inflight') > CopiesIn(p, inflight)

\* C33: in every paid write flow the event is admitted to the store and
\* broadcast before the lookup of the recipient's payment address starts:
\* the step of a handler that starts the lookup is the one in which it has
\* called injectEvent for the paid write.
C33_AdmissionBeforeLookup ==
  [][\A p \in BagToSet(inflight') :
       StartsLookup(p) => injected'.has /\ injected'.txId = p.txId]_vars

\* POST /api/messages waits for the address while nothing of the message is
\* stored, whatever time the lookup takes.
LookupBeforeAdmission ==
  \E p \in BagToSet(inflight) : p.stage = "lookup" /\ events = << >>

\* The entry of a recipient in a table of pending payouts, and what a
\* recipient without an entry has.
NoEntry(pubkey) ==
  [pubkey |-> pubkey, amount |-> 0, messages |-> << >>, paymentAddress |-> NoAddress]

EntryOf(table, pubkey) ==
  IF FindPayout(table, pubkey) = 0 THEN NoEntry(pubkey)
  ELSE table[FindPayout(table, pubkey)]

OneEntryEach(table) ==
  \A i, j \in 1..Len(table) : table[i].pubkey = table[j].pubkey => i = j

\* C34: a call of recordPendingPayout leaves exactly one entry for its
\* recipient: the amount of the call is added to the amount of the entry,
\* the event id is appended to its messages, its paymentAddress becomes the
\* address of the call when that is not null and stays what it was
\* otherwise; there is one entry per recipient and the entries of the other
\* recipients are as they were.  From the empty Map this gives, after any
\* sequence of calls, the sum of the amounts, the ids in call order and the
\* last address that was not null.
C34_PayoutsAccumulate ==
  [][fn'.name = "recordPendingPayout" =>
       LET old == EntryOf(payouts, fn'.pubkey)
           new == EntryOf(payouts', fn'.pubkey)
       IN /\ FindPayout(payouts', fn'.pubkey) # 0
          /\ OneEntryEach(payouts')
          /\ new.amount = old.amount + fn'.amount
          /\ new.messages = Append(old.messages, fn'.eventId)
          /\ new.paymentAddress = IF fn'.paymentAddress # NoAddress
                                    THEN fn'.paymentAddress ELSE old.paymentAddress
          /\ \A pubkey \in {RecipientA, RecipientB} \ {fn'.pubkey} :
               EntryOf(payouts', pubkey) = EntryOf(payouts, pubkey)
          /\ Len(payouts') = Len(payouts) + (IF FindPayout(payouts, fn'.pubkey) = 0
                                               THEN 1 ELSE 0)]_vars

\* The third call: the second one for its recipient, with null as address
\* after a call that had one, and an entry of the other recipient in the Map.
C34_Witness ==
  /\ fn.name = "recordPendingPayout"
  /\ fn.paymentAddress = NoAddress
  /\ Len(payouts) = 2
  /\ Len(EntryOf(payouts, fn.pubkey).messages) = 2
  /\ EntryOf(payouts, fn.pubkey).paymentAddress # NoAddress
  /\ EntryOf(payouts, fn.pubkey).amount = RECIPIENT_AMOUNT + RELAY_FEE

\* C35: every payout record refers to an event that the store admitted: a
\* paid write whose event the store rejects (injectEvent returns false: a
\* duplicate or a stale replacement) records no payout.
C35_PayoutOnlyForAdmitted ==
  [][(injected'.has /\ ~injected'.added) => payouts' = payouts]_vars

\* One stored event with two payout records: the second POST /api/messages
\* carried the event of the first.
PayoutForDuplicate ==
  /\ Len(events) = 1
  /\ \E i \in 1..Len(payouts) :
       /\ Len(payouts[i].messages) = 2
       /\ payouts[i].messages[1] = events[1].id
       /\ payouts[i].messages[2] = events[1].id
       /\ payouts[i].amount = 2 * RECIPIENT_AMOUNT

(***************************************************************************)
(* Properties of pricing.                                                  *)
(***************************************************************************)

\* The amount passed to verifyPayment for an event is the price that the
\* 402 response of the same handler states for it, as number in the body
\* and as decimal string in the X-Payment header.
RequiredIsAdvertised ==
  /\ \A p \in BagToSet(inflight) :
       p.stage = "fetch" =>
         /\ p.required = build402Response(p.event).price
         /\ ToDecimal(p.required) = build402Response(p.event).maxAmountRequired
  /\ injected.has =>
       /\ injected.required = build402Response(injected.event).price
       /\ ToDecimal(injected.required) = build402Response(injected.event).maxAmountRequired

\* C36: for every event, the amount that POST /api/events requires when it
\* verifies a proof equals the price it advertised for that event in the
\* 402 response (body.price and maxAmountRequired).
C36_RequiredIsAdvertised == RequiredIsAdvertised

\* The v0.6.0 entry point requires what it advertises.
RequiredIsAdvertisedV060 == deploy.entry = "v060" => RequiredIsAdvertised

\* An event to a recipient, advertised at 110, is admitted by index.mjs
\* after a verification that required 10.
AdmittedBelowAdvertised ==
  /\ deploy.entry = "index"
  /\ injected.has /\ injected.added
  /\ build402Response(injected.event).price = BASE_PRICING_default + RECIPIENT_AMOUNT
  /\ injected.required = BASE_PRICING_default

(***************************************************************************)
(* Properties of snapshot and live stream together.                        *)
(***************************************************************************)

\* How often an event is sent to a subscription in the messages of one
\* callback.
TimesSent(sent, ws, subId, event) ==
  Cardinality({i \in 1..Len(sent) :
                 sent[i] = Msg(ws, "EVENT", subId, event, "")})

\* The open subscriptions [ws, id] whose filters an event matches.
MatchingSubs(subscr, ready, event) ==
  UNION {{<<subscr[i].ws, subscr[i].subs[j].id>> :
            j \in {l \in 1..Len(subscr[i].subs) :
                     matchFilters(event, subscr[i].subs[l].filters)}} :
         i \in {k \in 1..Len(subscr) : ready[subscr[k].ws] = "open"}}

\* What the claim requires of a REQ and of an injectEvent: the snapshot
\* holds every stored event that matches once; an event that is admitted
\* goes once to every open subscription that matches it; one that is not
\* admitted, a stored one among them, goes to none.
NoLossNoDuplicateRule ==
  /\ fn'.name = "REQ" =>
       \A i \in 1..Len(events) :
         matchFilters(events[i], fn'.filters) =>
           TimesSent(wsSent', fn'.ws, fn'.subId, events[i]) = 1
  /\ fn'.name = "injectEvent" =>
       /\ \A s \in MatchingSubs(subscriptions, readyState, fn'.event) :
            TimesSent(wsSent', s[1], s[2], fn'.event) = (IF fn'.added THEN 1 ELSE 0)
       /\ HasId(events, fn'.event.id) => wsSent' = << >>

\* C37: for a subscription on a connection that stays open no matching
\* event is lost or duplicated between snapshot and live stream: a matching
\* event stored at the time of the REQ is delivered once in the snapshot
\* and never again live, and a matching event admitted after the REQ is
\* delivered live exactly once, for any interleaving of REQ and injectEvent.
C37_NoLossNoDuplicate == [][NoLossNoDuplicateRule]_vars

\* The same for subscriptions with one filter.
NoLossNoDuplicateOneFilter ==
  [][(fn'.name = "REQ" => Len(fn'.filters) = 1) => NoLossNoDuplicateRule]_vars

\* A snapshot in which a stored event that passes two filters of the list
\* is sent twice.
SnapshotSentTwice ==
  /\ fn.name = "REQ"
  /\ \E i \in 1..Len(events) : TimesSent(wsSent, fn.ws, fn.subId, events[i]) = 2

\* An admitted event that went once to each of two open subscriptions.
LiveSentOnceEach ==
  /\ fn.name = "injectEvent" /\ fn.added
  /\ Cardinality(MatchingSubs(subscriptions, readyState, fn.event)) >= 2
  /\ Len(wsSent) = Cardinality(MatchingSubs(subscriptions, readyState, fn.event))

(***************************************************************************)
(* Properties of filters with empty lists.                                 *)
(***************************************************************************)

\* A filter without the fields that are present with an empty list.
WithoutEmptyLists(filter) ==
  [filter EXCEPT
     !.ids = IF filter.ids.has /\ filter.ids.v = << >> THEN Absent(<< >>) ELSE filter.ids,
     !.authors = IF filter.authors.has /\ filter.authors.v = << >>
                   THEN Absent(<< >>) ELSE filter.authors,
     !.kinds = IF filter.kinds.has /\ filter.kinds.v = << >>
                 THEN Absent(<< >>) ELSE filter.kinds,
     !.tags = [x \in {y \in DOMAIN filter.tags : filter.tags[y] # << >>} |->
                 filter.tags[x]]]

HasEmptyList(filter) == WithoutEmptyLists(filter) # filter

\* Live matching and the Map store treat an empty list as an absent field.
EmptyListIgnoredByMatchFilter ==
  fn.name = "query" =>
    /\ \A event \in StoreEvents :
         matchFilter(event, fn.filter) = matchFilter(event, WithoutEmptyLists(fn.filter))
    /\ fn.rowsMem = query(FALSE, memory, WithoutEmptyLists(fn.filter))

\* The snapshot query of the SQLite store does so too.
EmptyListIgnoredByQueryDb ==
  fn.name = "query" => fn.rows = query(TRUE, events, WithoutEmptyLists(fn.filter))

\* C38: a filter field that is present with an empty list (ids, authors,
\* kinds or a '#x' tag field) restricts nothing: it is treated as if the
\* field were absent in live matching and in the snapshot queries of both
\* backends.
C38_EmptyListRestrictsNothing ==
  EmptyListIgnoredByMatchFilter /\ EmptyListIgnoredByQueryDb

\* The empty lists of ids, authors and kinds restrict nothing on SQLite.
EmptyListOfColumnIgnored ==
  (fn.name = "query" /\ fn.filter.tags = WithoutEmptyLists(fn.filter).tags) =>
    fn.rows = query(TRUE, events, WithoutEmptyLists(fn.filter))

\* The two stores hold the same tagged event; the query { "#p": [] }
\* returns it from the Map and nothing from SQLite.
EmptyTagListHidesAll ==
  /\ fn.name = "query" /\ fn.filter = FilterEmptyTag
  /\ events = memory /\ Len(events) >= 2
  /\ fn.rows = << >>
  /\ fn.rowsMem = query(FALSE, memory, EmptyFilter)
  /\ Len(fn.rowsMem) = Len(memory)

\* A query with empty lists of ids, authors and kinds returns the store.
EmptyColumnListsReturnAll ==
  /\ fn.name = "query" /\ fn.filter = FilterEmptyLists
  /\ Len(events) >= 2
  /\ Len(fn.rows) = Len(events) /\ fn.rowsMem = fn.rows

(***************************************************************************)
(* Properties of the amount of a contract call.                            *)
(***************************************************************************)

\* The emitted events of a record that are token transfers to PAY_TO.
TransfersToPayTo(tx) == {i \in 1..Len(tx.events) : IsTransferToUs(tx.events[i])}

FirstTransferToPayTo(tx) ==
  CHOOSE i \in TransfersToPayTo(tx) : \A j \in TransfersToPayTo(tx) : i <= j

\* A later transfer event to PAY_TO of the record pays `required` or more.
LaterTransferPays(tx, required) ==
  \E j \in TransfersToPayTo(tx) :
    /\ j > FirstTransferToPayTo(tx)
    /\ parseAmount(tx.events[j].asset.amount).ok
    /\ parseAmount(tx.events[j].asset.amount).n >= required

\* C39: for a contract_call transaction the paid amount is that of the
\* first emitted token transfer event whose recipient is PAY_TO: when it is
\* below the required price the verification answers 'Insufficient
\* payment' with that amount, also when a later transfer event to PAY_TO
\* reaches the price; when it reaches the price the proof is valid.
C39_FirstTransferCounts ==
  (/\ fn.name = "verifyPayment"
   /\ fn.outcome.kind = "tx"
   /\ fn.outcome.tx.tx_status = "success"
   /\ fn.outcome.tx.tx_type = "contract_call"
   /\ TransfersToPayTo(fn.outcome.tx) # {}) =>
    LET tx == fn.outcome.tx
        paid == parseAmount(tx.events[FirstTransferToPayTo(tx)].asset.amount)
    IN paid.ok =>
         fn.result = (IF paid.n < fn.required
                        THEN Result(FALSE, "Insufficient payment", "", paid.n, fn.required)
                        ELSE Valid)

\* A contract call whose first transfer to PAY_TO is 9 and whose second is
\* 110, verified against 110 and refused.
C39_Witness ==
  /\ fn.name = "verifyPayment" /\ fn.outcome.kind = "tx"
  /\ fn.outcome.tx.tx_type = "contract_call"
  /\ Cardinality(TransfersToPayTo(fn.outcome.tx)) = 2
  /\ LaterTransferPays(fn.outcome.tx, fn.required)
  /\ fn.required = BASE_PRICING_default + RECIPIENT_AMOUNT
  /\ ~fn.result.valid /\ fn.result.error = "Insufficient payment"
  /\ fn.result.paid < fn.required

====
